---------------------------- MODULE Spec2Model ----------------------------
(***************************************************************************)
(* Model of the incremental recompilation core of Sikuwa                   *)
(* (src/incremental/cpp/incremental_core.{h,cpp}): UnitManager,            *)
(* ChangeDetector, CompilationCache and IncrementalEngine.                 *)
(*                                                                         *)
(* Strings are sequences of one-character strings, so that split_lines,    *)
(* the trimming of compute_line_hash and the "\n" separators written by    *)
(* get_combined_output are computed as the code computes them.             *)
(***************************************************************************)
EXTENDS Integers, Sequences, FiniteSets, TLC

VARIABLES
    units_,             \* UnitManager::units_ : id -> CompilationUnit
    file_units_,        \* UnitManager::file_units_ : file -> ids, insertion order
    cache_,             \* CompilationCache::cache_ : id -> CacheEntry
    snapshots_,         \* IncrementalEngine::snapshots_ : file -> line hashes
    units_to_compile_,  \* IncrementalEngine::units_to_compile_
    changes,            \* the ChangeRecords returned by the last update_source
    last,               \* the last call made and its arguments
    cycle,              \* progress of a register/update/compile round
    done,               \* files whose last round ended fully compiled
    nops,               \* number of calls made so far
    old_lines,          \* ChangeDetector inputs: line hashes of the old snapshot
    new_lines,          \* ChangeDetector inputs: line hashes of the new snapshot
    changed,            \* result of get_changed_lines(old_lines, new_lines)
    lcs,                \* result of compute_lcs(old_lines, new_lines)
    dpc,                \* "in" before the detector ran, "out" after
    old_units,          \* detect_changes input: old_snap.units
    new_units,          \* detect_changes input: new_snap.units
    records,            \* result of detect_changes(old_snap, new_snap)
    lru,                \* an LRUCache: max_size_, cache_, usage_order_
    lru_abs,            \* the least-recently-used map the LRUCache stands for
    lfu,                \* an LFUCache: max_size_, cache_, freq_map_, min_frequency_
    lfu_count,          \* per stored key, the successful calls since it was inserted
    build,              \* a BuildCache: its policy object and the files it hashes
    build_abs,          \* the results stored per request and file contents
    cc,                 \* a CompilationCache: cache_, hits_, misses_ and its file
    cc_abs,             \* the get calls made, the entries last saved, the clock
    shared,             \* the cache object several threads call, and its kind
    mutex_,             \* its mutex: the thread that holds it, or "free"
    threads,            \* per thread: where it is in its call, and the call
    serial              \* the object as the calls leave it done one at a time

engineVars == <<units_, file_units_, cache_, snapshots_, units_to_compile_,
                changes, last, cycle, done, nops>>
lineVars == <<old_lines, new_lines, changed, lcs>>
unitDiffVars == <<old_units, new_units, records>>
diffVars == <<lineVars, dpc, unitDiffVars>>
engineState == <<units_, file_units_, cache_, snapshots_, units_to_compile_,
                 changes, cycle, done>>
lruVars == <<lru, lru_abs>>
lfuVars == <<lfu, lfu_count>>
buildVars == <<build, build_abs>>
ccVars == <<cc, cc_abs>>
threadVars == <<shared, mutex_, threads, serial>>
cacheVars == <<lruVars, lfuVars, buildVars, ccVars, threadVars>>
vars == <<engineVars, diffVars, cacheVars>>

-----------------------------------------------------------------------------
(* Bounds of the model *)

\* longest source text, in lines, passed to update_source
MaxLines == 3
\* number of engine calls in one behaviour
MaxOps == 4
\* number of engine calls in one behaviour of a caller that keeps to rounds
MaxRoundOps == 8
\* number of dependency edges stored at a time
MaxDeps == 2
\* longest line-hash sequence handed to the change detector on its own
MaxDiffLen == 4
MaxQueries == 2
MaxUnitOps == 6
MaxSerialOps == 6
\* largest capacity of a cache, and number of calls made on one
MaxCapacity == 2
MaxCacheOps == 7
MaxBuildOps == 3
MaxCompOps == 5
MaxThreadCalls == 3

-----------------------------------------------------------------------------
(* Generic helpers *)

Range(s) == {s[i] : i \in DOMAIN s}

Remove(s, v) == SelectSeq(s, LAMBDA e : e # v)

Put(f, k, v) == [x \in (DOMAIN f) \cup {k} |-> IF x = k THEN v ELSE f[x]]

Drop(f, k) == [x \in (DOMAIN f) \ {k} |-> f[x]]

EmptyMap == [x \in {} |-> {}]

SeqsUpTo(S, n) == UNION {[1..k -> S] : k \in 0..n}

Perms(S) == {p \in [1..Cardinality(S) -> S] : \A i, j \in DOMAIN p : i # j => p[i] # p[j]}

-----------------------------------------------------------------------------
(* Hashing and line utilities *)

IsSpace(c) == c \in {" ", "\t", "\r", "\n"}

RECURSIVE StripLeft(_)
StripLeft(s) ==
    IF s = <<>> THEN <<>>
    ELSE IF IsSpace(Head(s)) THEN StripLeft(Tail(s)) ELSE s

RECURSIVE StripRight(_)
StripRight(s) ==
    IF s = <<>> THEN <<>>
    ELSE IF IsSpace(s[Len(s)]) THEN StripRight(SubSeq(s, 1, Len(s) - 1)) ELSE s

\* FNV-1a over the bytes, rendered as hex: an injective tag of the text here
compute_hash(content) == <<"fnv">> \o content

\* compute_line_hash were it to strip the leading whitespace only
compute_line_hash_left_only(line) ==
    IF StripLeft(line) = <<>> THEN <<"empty">>
    ELSE compute_hash(StripLeft(line))

compute_line_hash(line) ==
    IF StripLeft(line) = <<>> THEN <<"empty">>
    ELSE compute_hash(StripRight(StripLeft(line)))

RECURSIVE FirstNewline(_, _)
FirstNewline(s, i) ==
    IF i > Len(s) THEN 0
    ELSE IF s[i] = "\n" THEN i ELSE FirstNewline(s, i + 1)

RECURSIVE split_lines(_)
split_lines(content) ==
    IF content = <<>> THEN <<>>
    ELSE LET k == FirstNewline(content, 1)
         IN  IF k = 0 THEN <<content>>
             ELSE <<SubSeq(content, 1, k - 1)>>
                      \o split_lines(SubSeq(content, k + 1, Len(content)))

RECURSIVE join_lines(_)
join_lines(lines) ==
    IF lines = <<>> THEN <<>>
    ELSE IF Len(lines) = 1 THEN lines[1]
    ELSE lines[1] \o <<"\n">> \o join_lines(Tail(lines))

\* Snapshot::line_hashes as create_snapshot fills it
create_snapshot(content) ==
    LET lines == split_lines(content)
    IN  [i \in 1..Len(lines) |-> compute_line_hash(lines[i])]

-----------------------------------------------------------------------------
(* ChangeDetector *)

\* the DP table of compute_lcs
RECURSIVE LcsTable(_, _, _, _)
LcsTable(old, new, i, j) ==
    IF i = 0 \/ j = 0 THEN 0
    ELSE IF old[i] = new[j] THEN LcsTable(old, new, i - 1, j - 1) + 1
    ELSE LET up   == LcsTable(old, new, i - 1, j)
             left == LcsTable(old, new, i, j - 1)
         IN  IF up > left THEN up ELSE left

\* the backtrace were it to follow the smaller table entry
RECURSIVE LcsBacktraceSmaller(_, _, _, _)
LcsBacktraceSmaller(old, new, i, j) ==
    IF i = 0 \/ j = 0 THEN <<>>
    ELSE IF old[i] = new[j]
         THEN Append(LcsBacktraceSmaller(old, new, i - 1, j - 1), <<i - 1, j - 1>>)
    ELSE IF LcsTable(old, new, i - 1, j) < LcsTable(old, new, i, j - 1)
         THEN LcsBacktraceSmaller(old, new, i - 1, j)
    ELSE LcsBacktraceSmaller(old, new, i, j - 1)

\* the backtrace were it to step up on equal table entries
RECURSIVE LcsBacktraceUpOnTie(_, _, _, _)
LcsBacktraceUpOnTie(old, new, i, j) ==
    IF i = 0 \/ j = 0 THEN <<>>
    ELSE IF old[i] = new[j]
         THEN Append(LcsBacktraceUpOnTie(old, new, i - 1, j - 1), <<i - 1, j - 1>>)
    ELSE IF LcsTable(old, new, i - 1, j) >= LcsTable(old, new, i, j - 1)
         THEN LcsBacktraceUpOnTie(old, new, i - 1, j)
    ELSE LcsBacktraceUpOnTie(old, new, i, j - 1)

\* the backtrace of compute_lcs; pairs are 0-based <<old_idx, new_idx>>,
\* collected from the end and returned in ascending order
RECURSIVE LcsBacktrace(_, _, _, _)
LcsBacktrace(old, new, i, j) ==
    IF i = 0 \/ j = 0 THEN <<>>
    ELSE IF old[i] = new[j]
         THEN Append(LcsBacktrace(old, new, i - 1, j - 1), <<i - 1, j - 1>>)
    ELSE IF LcsTable(old, new, i - 1, j) > LcsTable(old, new, i, j - 1)
         THEN LcsBacktrace(old, new, i - 1, j)
    ELSE LcsBacktrace(old, new, i, j - 1)

compute_lcs(old, new) == LcsBacktrace(old, new, Len(old), Len(new))

\* get_changed_lines were it to look up the 1-based line number among the
\* 0-based indices of the pairs
get_changed_lines_one_based(old, new) ==
    LET pairs == compute_lcs(old, new)
        lcs_new_lines == {pairs[k][2] : k \in DOMAIN pairs}
    IN  SelectSeq([i \in 1..Len(new) |-> i], LAMBDA i : i \notin lcs_new_lines)

\* get_changed_lines were it to collect pair.first, the old-side index
get_changed_lines_old_side(old, new) ==
    LET pairs == compute_lcs(old, new)
        lcs_old_lines == {pairs[k][1] : k \in DOMAIN pairs}
        idx == SelectSeq([i \in 1..Len(new) |-> i - 1],
                         LAMBDA i : i \notin lcs_old_lines)
    IN  [k \in 1..Len(idx) |-> idx[k] + 1]

\* get_changed_lines were its loop to stop one line before the end
get_changed_lines_short(old, new) ==
    LET pairs == compute_lcs(old, new)
        lcs_new_lines == {pairs[k][2] : k \in DOMAIN pairs}
        idx == SelectSeq([i \in 1..(Len(new) - 1) |-> i - 1],
                         LAMBDA i : i \notin lcs_new_lines)
    IN  [k \in 1..Len(idx) |-> idx[k] + 1]

get_changed_lines(old, new) ==
    LET pairs == compute_lcs(old, new)
        lcs_new_lines == {pairs[k][2] : k \in DOMAIN pairs}
        idx == SelectSeq([i \in 1..Len(new) |-> i - 1],
                         LAMBDA i : i \notin lcs_new_lines)
    IN  [k \in 1..Len(idx) |-> idx[k] + 1]

-----------------------------------------------------------------------------
(* Compilation units *)

Files == {"A", "B"}

UnitIds == {"aC", "aF", "aS", "aL", "bS"}

Structural == {"FUNCTION", "CLASS"}

\* The units the parser can hand over.  An id is derived from the file, the
\* line range and the content hash (generate_unit_id), so it fixes them.
Catalogue ==
    [aC |-> [file_path |-> "A", start_line |-> 1, end_line |-> 3, type |-> "CLASS",
             name |-> "C"],
     aF |-> [file_path |-> "A", start_line |-> 2, end_line |-> 3, type |-> "FUNCTION",
             name |-> "F"],
     aS |-> [file_path |-> "A", start_line |-> 3, end_line |-> 3, type |-> "STATEMENT",
             name |-> ""],
     aL |-> [file_path |-> "A", start_line |-> 2, end_line |-> 2, type |-> "STATEMENT",
             name |-> "L"],
     bS |-> [file_path |-> "B", start_line |-> 1, end_line |-> 1, type |-> "STATEMENT",
             name |-> ""]]

\* a CompilationUnit as its constructor and the parser fill it
NewUnit(id) ==
    [id            |-> id,
     file_path     |-> Catalogue[id].file_path,
     start_line    |-> Catalogue[id].start_line,
     end_line      |-> Catalogue[id].end_line,
     type          |-> Catalogue[id].type,
     name          |-> Catalogue[id].name,
     content_hash  |-> <<"h", id>>,
     dependencies  |-> <<>>,
     dependents    |-> <<>>,
     state         |-> "UNKNOWN",
     cached_output |-> <<>>,
     cache_valid   |-> FALSE]


-----------------------------------------------------------------------------
(* UnitManager.  A manager value m is [units, file_units]. *)

add_unit(m, unit) ==
    [units      |-> Put(m.units, unit.id, unit),
     file_units |-> [m.file_units EXCEPT ![unit.file_path] = Append(@, unit.id)]]

update_unit(m, id, unit) ==
    IF id \in DOMAIN m.units
    THEN [m EXCEPT !.units = [@ EXCEPT ![id] = unit]]
    ELSE m

remove_unit(m, id) ==
    IF id \notin DOMAIN m.units THEN m
    ELSE LET u == m.units[id]
             scrubbed == [x \in DOMAIN m.units |->
                            IF x \in Range(u.dependencies)
                            THEN [m.units[x] EXCEPT !.dependents = Remove(@, id)]
                            ELSE m.units[x]]
         IN  [units      |-> Drop(scrubbed, id),
              file_units |-> [m.file_units EXCEPT ![u.file_path] = Remove(@, id)]]

\* std::sort by start_line, as an insertion sort
RECURSIVE InsertByStart(_, _, _)
InsertByStart(us, sorted, id) ==
    IF sorted = <<>> THEN <<id>>
    ELSE IF us[id].start_line < us[Head(sorted)].start_line
         THEN <<id>> \o sorted
    ELSE <<Head(sorted)>> \o InsertByStart(us, Tail(sorted), id)

RECURSIVE SortByStart(_, _)
SortByStart(us, ids) ==
    IF ids = <<>> THEN <<>>
    ELSE InsertByStart(us, SortByStart(us, SubSeq(ids, 1, Len(ids) - 1)), ids[Len(ids)])

\* the units (by id) the file index lists and the map still holds, sorted
get_units_by_file(m, file_path) ==
    SortByStart(m.units, SelectSeq(m.file_units[file_path], LAMBDA id : id \in DOMAIN m.units))

get_units_in_range(m, file_path, start, end) ==
    SelectSeq(get_units_by_file(m, file_path),
              LAMBDA id : m.units[id].start_line <= end /\ m.units[id].end_line >= start)

\* add_dependency were it to append without looking for the id
add_dependency_append(m, from_id, to_id) ==
    IF from_id \in DOMAIN m.units /\ to_id \in DOMAIN m.units
    THEN LET u1 == [m.units EXCEPT ![from_id].dependencies = Append(@, to_id)]
             u2 == [u1 EXCEPT ![to_id].dependents = Append(@, from_id)]
         IN  [m EXCEPT !.units = u2]
    ELSE m

add_dependency(m, from_id, to_id) ==
    IF from_id \in DOMAIN m.units /\ to_id \in DOMAIN m.units
    THEN LET u1 == [m.units EXCEPT ![from_id].dependencies =
                        IF to_id \in Range(@) THEN @ ELSE Append(@, to_id)]
             u2 == [u1 EXCEPT ![to_id].dependents =
                        IF from_id \in Range(@) THEN @ ELSE Append(@, from_id)]
         IN  [m EXCEPT !.units = u2]
    ELSE m

remove_dependency(m, from_id, to_id) ==
    LET u1 == IF from_id \in DOMAIN m.units
              THEN [m.units EXCEPT ![from_id].dependencies = Remove(@, to_id)]
              ELSE m.units
        u2 == IF to_id \in DOMAIN u1
              THEN [u1 EXCEPT ![to_id].dependents = Remove(@, from_id)]
              ELSE u1
    IN  [m EXCEPT !.units = u2]

\* the closure were it to stop at the direct dependents
collect_direct_dependents(us, id, visited) ==
    IF id \in visited \/ id \notin DOMAIN us THEN visited \cup {id}
    ELSE visited \cup {id} \cup Range(us[id].dependents)

RECURSIVE collect_affected_recursive(_, _, _)
RECURSIVE CollectEach(_, _, _)
collect_affected_recursive(us, id, visited) ==
    IF id \in visited THEN visited
    ELSE IF id \notin DOMAIN us THEN visited \cup {id}
    ELSE CollectEach(us, us[id].dependents, visited \cup {id})

CollectEach(us, ids, visited) ==
    IF ids = <<>> THEN visited
    ELSE CollectEach(us, Tail(ids), collect_affected_recursive(us, Head(ids), visited))

\* the closure were the seed left in it
get_affected_units_with_seed(us, changed_id) ==
    collect_affected_recursive(us, changed_id, {})

\* the closure were it one level deep
get_affected_units_direct(us, changed_id) ==
    IF changed_id \in DOMAIN us THEN Range(us[changed_id].dependents) \ {changed_id} ELSE {}

get_affected_units(us, changed_id) ==
    collect_affected_recursive(us, changed_id, {}) \ {changed_id}

-----------------------------------------------------------------------------
(* UnitManager::serialize and deserialize.  A text is a sequence of        *)
(* characters.  Ids, paths and names are spelled character by character; *)
(* a content hash, a tuple in this model, is written one element per       *)
(* character.                                                              *)

Tab == "\t"
Newline == "\n"

\* the strings the units are made of, and what is left of an id without its
\* first character
Words == {"aC", "aF", "aS", "aL", "bS", "A", "B", "C", "F", "L", "S", ""}

Spelling(w) ==
    CASE w = "aC" -> <<"a", "C">>
      [] w = "aF" -> <<"a", "F">>
      [] w = "aS" -> <<"a", "S">>
      [] w = "aL" -> <<"a", "L">>
      [] w = "bS" -> <<"b", "S">>
      [] w = ""   -> <<>>
      [] OTHER    -> <<w>>

\* the std::string holding these characters
Word(cs) == CHOOSE w \in Words : Spelling(w) = cs

DigitChars == <<"0", "1", "2", "3", "4", "5", "6", "7", "8", "9">>

IsDigit(c) == \E i \in DOMAIN DigitChars : DigitChars[i] = c

DigitValue(c) == (CHOOSE i \in DOMAIN DigitChars : DigitChars[i] = c) - 1

\* operator<< of a non-negative integer
RECURSIVE Decimal(_)
Decimal(n) ==
    IF n < 10 THEN <<DigitChars[n + 1]>>
    ELSE Decimal(n \div 10) \o <<DigitChars[(n % 10) + 1]>>

\* enum class UnitType in declaration order; static_cast<int> is the index
UnitTypes == <<"LINE", "STATEMENT", "FUNCTION", "CLASS", "MODULE", "IMPORT",
               "DECORATOR", "BLOCK">>

TypeInt(t) == (CHOOSE i \in DOMAIN UnitTypes : UnitTypes[i] = t) - 1

RECURSIVE DepsText(_)
DepsText(deps) ==
    IF deps = <<>> THEN <<>>
    ELSE <<Tab>> \o Spelling(Head(deps)) \o DepsText(Tail(deps))

\* one line of serialize
UnitText(u) ==
    Spelling(u.id) \o <<Tab>> \o Spelling(u.file_path) \o <<Tab>> \o
    Decimal(u.start_line) \o <<Tab>> \o Decimal(u.end_line) \o <<Tab>> \o
    Decimal(TypeInt(u.type)) \o <<Tab>> \o Spelling(u.name) \o <<Tab>> \o
    u.content_hash \o <<Tab>> \o Decimal(Len(u.dependencies)) \o
    DepsText(u.dependencies) \o <<Newline>>

RECURSIVE UnitsText(_, _)
UnitsText(us, order) ==
    IF order = <<>> THEN <<>>
    ELSE UnitText(us[Head(order)]) \o UnitsText(us, Tail(order))

\* serialize, the units taken in the order the unordered_map yields them
serialize(us, order) ==
    Decimal(Cardinality(DOMAIN us)) \o <<Newline>> \o UnitsText(us, order)

\* an input stream: the text, the read position, and good(): neither the
\* end nor a failure was met
IStream(text) == [text |-> text, pos |-> 1, good |-> TRUE]

\* the first position from p on that holds the character c, or one past the
\* end
RECURSIVE FindChar(_, _, _)
FindChar(text, p, c) ==
    IF p > Len(text) THEN p
    ELSE IF text[p] = c THEN p
    ELSE FindChar(text, p + 1, c)

\* std::getline(st, str, delim): the characters up to delim, which is
\* consumed, or up to the end
GetLine(st, delim) ==
    IF ~st.good THEN [str |-> <<>>, st |-> st]
    ELSE LET d == FindChar(st.text, st.pos, delim)
         IN  IF d <= Len(st.text)
             THEN [str |-> SubSeq(st.text, st.pos, d - 1), st |-> [st EXCEPT !.pos = d + 1]]
             ELSE [str |-> SubSeq(st.text, st.pos, Len(st.text)),
                   st  |-> [st EXCEPT !.pos = d, !.good = FALSE]]

\* st.ignore(): one character is dropped, whatever it is
Ignore(st) ==
    IF ~st.good THEN st
    ELSE IF st.pos > Len(st.text) THEN [st EXCEPT !.good = FALSE]
    ELSE [st EXCEPT !.pos = st.pos + 1]

IsBlank(c) == c \in {Tab, Newline, " "}

\* the first position from p on that holds no whitespace
RECURSIVE SkipBlanks(_, _)
SkipBlanks(text, p) ==
    IF p > Len(text) THEN p
    ELSE IF ~IsBlank(text[p]) THEN p
    ELSE SkipBlanks(text, p + 1)

\* the first position from p on that holds no digit
RECURSIVE SkipDigits(_, _)
SkipDigits(text, p) ==
    IF p > Len(text) THEN p
    ELSE IF ~IsDigit(text[p]) THEN p
    ELSE SkipDigits(text, p + 1)

RECURSIVE DigitsValue(_)
DigitsValue(cs) ==
    IF cs = <<>> THEN 0
    ELSE 10 * DigitsValue(SubSeq(cs, 1, Len(cs) - 1)) + DigitValue(cs[Len(cs)])

\* st >> n for a non-negative integer: leading whitespace is skipped, the
\* digits are read; no digit is a failure and leaves 0
ReadInt(st) ==
    IF ~st.good THEN [val |-> 0, st |-> st]
    ELSE LET p == SkipBlanks(st.text, st.pos)
             q == SkipDigits(st.text, p)
         IN  IF q = p THEN [val |-> 0, st |-> [st EXCEPT !.pos = p, !.good = FALSE]]
             ELSE [val |-> DigitsValue(SubSeq(st.text, p, q - 1)),
                   st  |-> [st EXCEPT !.pos = q, !.good = q <= Len(st.text)]]

\* the loop over dep_count: ignore(), getline up to a tab, empty ones dropped
RECURSIVE ReadDeps(_, _, _)
ReadDeps(st, n, deps) ==
    IF n = 0 THEN deps
    ELSE LET r == GetLine(Ignore(st), Tab)
         IN  ReadDeps(r.st, n - 1,
                      IF r.str # <<>> THEN Append(deps, Word(r.str)) ELSE deps)

\* CompilationUnit()
DefaultUnit ==
    [id            |-> "",
     file_path     |-> "",
     start_line    |-> 0,
     end_line      |-> 0,
     type          |-> "LINE",
     name          |-> "",
     content_hash  |-> <<>>,
     dependencies  |-> <<>>,
     dependents    |-> <<>>,
     state         |-> "UNKNOWN",
     cached_output |-> <<>>,
     cache_valid   |-> FALSE]

\* the body of the loop of deserialize up to add_unit: one line to a unit
ParseUnit(line) ==
    LET id    == GetLine(IStream(line), Tab)
        path  == GetLine(id.st, Tab)
        start == ReadInt(path.st)
        end   == ReadInt(Ignore(start.st))
        type  == ReadInt(Ignore(end.st))
        name  == GetLine(Ignore(type.st), Tab)
        hash  == GetLine(name.st, Tab)
        count == ReadInt(hash.st)
    IN  [DefaultUnit EXCEPT
           !.id = Word(id.str),
           !.file_path = Word(path.str),
           !.start_line = start.val,
           !.end_line = end.val,
           !.type = UnitTypes[type.val + 1],
           !.name = Word(name.str),
           !.content_hash = hash.str,
           !.dependencies = ReadDeps(count.st, count.val, <<>>)]

\* the first loop of deserialize: count lines, each parsed and added
RECURSIVE ReadUnits(_, _, _)
ReadUnits(st, n, m) ==
    IF n = 0 THEN m
    ELSE LET line == GetLine(st, Newline)
         IN  ReadUnits(line.st, n - 1, add_unit(m, ParseUnit(line.str)))

\* the second loop of deserialize: every unit, in the order of units_, is
\* appended to the dependents of each stored unit it depends on
RECURSIVE LinkDeps(_, _, _)
LinkDeps(us, id, deps) ==
    IF deps = <<>> THEN us
    ELSE LinkDeps(IF Head(deps) \in DOMAIN us
                  THEN [us EXCEPT ![Head(deps)].dependents = Append(@, id)]
                  ELSE us,
                  id, Tail(deps))

RECURSIVE LinkAll(_, _)
LinkAll(us, order) ==
    IF order = <<>> THEN us
    ELSE LinkAll(LinkDeps(us, Head(order), us[Head(order)].dependencies), Tail(order))

\* deserialize up to the end of its first loop: clear(), the count, the
\* lines
ReadManager(data) ==
    LET count == ReadInt(IStream(data))
    IN  ReadUnits(Ignore(count.st), count.val,
                  [units |-> EmptyMap, file_units |-> [f \in {"A", "B"} |-> <<>>]])

\* deserialize(data); order is the iteration order of the rebuilt units_
deserialize(data, order) ==
    LET m == ReadManager(data)
    IN  [m EXCEPT !.units = LinkAll(m.units, order)]

-----------------------------------------------------------------------------
(* CompilationCache *)

cache_put(c, unit_id, output, content_hash) ==
    Put(c, unit_id, [output |-> output, content_hash |-> content_hash])

cache_is_valid(c, unit_id, current_hash) ==
    unit_id \in DOMAIN c /\ c[unit_id].content_hash = current_hash

cache_get(c, unit_id) == IF unit_id \in DOMAIN c THEN c[unit_id].output ELSE <<>>

-----------------------------------------------------------------------------
(* IncrementalEngine: the pure parts *)

Manager == [units |-> units_, file_units |-> file_units_]

RECURSIVE RemoveAll(_, _)
RemoveAll(m, ids) ==
    IF ids = <<>> THEN m ELSE RemoveAll(remove_unit(m, Head(ids)), Tail(ids))

RECURSIVE AddAll(_, _)
AddAll(m, units) ==
    IF units = <<>> THEN m ELSE AddAll(add_unit(m, Head(units)), Tail(units))

\* register_units were it to add the new units without dropping the old ones
register_without_drop(m, file_path, units) == AddAll(m, units)

register_units(m, file_path, units) ==
    AddAll(RemoveAll(m, get_units_by_file(m, file_path)), units)

\* the output get_combined_output takes for one unit
UnitOutput(us, c, id) ==
    IF us[id].cache_valid THEN us[id].cached_output
    ELSE IF cache_is_valid(c, id, us[id].content_hash) THEN cache_get(c, id)
    ELSE <<>>

RECURSIVE CombineFrom(_, _, _, _)
CombineFrom(us, c, ids, i) ==
    IF i > Len(ids) THEN <<>>
    ELSE LET output == UnitOutput(us, c, ids[i])
         IN  (IF output # <<>>
              THEN (IF i > 1 THEN <<"\n">> ELSE <<>>) \o output
              ELSE <<>>)
             \o CombineFrom(us, c, ids, i + 1)

get_combined_output(m, c, file_path) ==
    CombineFrom(m.units, c, get_units_by_file(m, file_path), 1)

\* one pass of the body of update_source's loop over the units on a changed line
VisitChanged(acc, id) ==
    LET u1 == [acc.units EXCEPT ![id].state = "MODIFIED", ![id].cache_valid = FALSE]
        dependents == get_affected_units(u1, id)
        u2 == [x \in DOMAIN u1 |->
                 IF x \in dependents
                 THEN [u1[x] EXCEPT !.state = "AFFECTED", !.cache_valid = FALSE]
                 ELSE u1[x]]
    IN  [units |-> u2, affected |-> acc.affected \cup {id} \cup dependents]

RECURSIVE VisitEach(_, _)
VisitEach(acc, ids) ==
    IF ids = <<>> THEN acc ELSE VisitEach(VisitChanged(acc, Head(ids)), Tail(ids))

\* the units update_source visits, in order: per changed line, the units on it
RECURSIVE UnitsOnLines(_, _, _)
UnitsOnLines(m, file_path, lines) ==
    IF lines = <<>> THEN <<>>
    ELSE get_units_in_range(m, file_path, Head(lines), Head(lines))
             \o UnitsOnLines(m, file_path, Tail(lines))

\* expand_to_boundaries were it to look for an enclosing Function only
FunctionParents(us, fu, file_path, unit_ids) ==
    {p \in Range(get_units_by_file([units |-> us, file_units |-> fu], file_path)) :
        /\ us[p].type = "FUNCTION"
        /\ \E id \in unit_ids :
              /\ id \in DOMAIN us
              /\ us[id].type \notin Structural
              /\ p # id
              /\ us[p].start_line <= us[id].start_line
              /\ us[p].end_line >= us[id].end_line}

\* the containers expand_to_boundaries adds for the ids it is given
BoundaryParents(us, fu, file_path, unit_ids) ==
    {p \in Range(get_units_by_file([units |-> us, file_units |-> fu], file_path)) :
        /\ us[p].type \in Structural
        /\ \E id \in unit_ids :
              /\ id \in DOMAIN us
              /\ us[id].type \notin Structural
              /\ p # id
              /\ us[p].start_line <= us[id].start_line
              /\ us[p].end_line >= us[id].end_line}

expand_to_boundaries(us, fu, file_path, unit_ids) ==
    LET parents == BoundaryParents(us, fu, file_path, unit_ids)
    IN  [units |-> [x \in DOMAIN us |->
                      IF x \in parents
                      THEN [us[x] EXCEPT !.state = "AFFECTED", !.cache_valid = FALSE]
                      ELSE us[x]],
         ids   |-> unit_ids \cup parents]

ChangeRecord(us, id) ==
    [unit_id        |-> id,
     change_type    |-> us[id].state,
     new_start_line |-> us[id].start_line,
     new_end_line   |-> us[id].end_line]

-----------------------------------------------------------------------------
(* ChangeDetector::detect_changes *)

\* what a line field of a ChangeRecord holds when nothing was assigned to it:
\* ChangeRecord has no constructor, the int is indeterminate
Garbage == {0, 77}

DeletedRecord(old, id, g) ==
    [unit_id        |-> id,
     change_type    |-> "DELETED",
     old_start_line |-> old[id].start_line,
     old_end_line   |-> old[id].end_line,
     new_start_line |-> g,
     new_end_line   |-> g,
     reason         |-> "unit deleted"]

AddedRecord(new, id, g) ==
    [unit_id        |-> id,
     change_type    |-> "ADDED",
     old_start_line |-> g,
     old_end_line   |-> g,
     new_start_line |-> new[id].start_line,
     new_end_line   |-> new[id].end_line,
     reason         |-> "unit added"]

ModifiedRecord(old, new, id) ==
    [unit_id        |-> id,
     change_type    |-> "MODIFIED",
     old_start_line |-> old[id].start_line,
     old_end_line   |-> old[id].end_line,
     new_start_line |-> new[id].start_line,
     new_end_line   |-> new[id].end_line,
     reason         |-> "content changed"]

\* the record lists detect_changes may return given the ids it takes for
\* modified: the deleted ids in the order of old_ids, then the added and
\* modified ones in the order of new_snap.units, both unordered containers;
\* g[id] stands for the unassigned fields of the record of id
DetectRecords(old, new, modified, g) ==
    LET deleted == DOMAIN old \ DOMAIN new
        added == DOMAIN new \ DOMAIN old
    IN  {[i \in 1..Len(d) |-> DeletedRecord(old, d[i], g[d[i]])] \o
         [i \in 1..Len(n) |-> IF n[i] \in added
                              THEN AddedRecord(new, n[i], g[n[i]])
                              ELSE ModifiedRecord(old, new, n[i])] :
            d \in Perms(deleted), n \in Perms(added \cup modified)}

\* detect_changes were it to compare the line ranges of the two versions
detect_changes_by_range(old, new, g) ==
    DetectRecords(old, new,
                  {id \in DOMAIN old \cap DOMAIN new :
                      \/ old[id].start_line # new[id].start_line
                      \/ old[id].end_line # new[id].end_line}, g)

detect_changes(old, new, g) ==
    DetectRecords(old, new,
                  {id \in DOMAIN old \cap DOMAIN new :
                      old[id].content_hash # new[id].content_hash}, g)


-----------------------------------------------------------------------------
(* Inputs of the engine *)

\* the line texts an edit of a source file chooses from
SourceLines == {<<"x">>, <<"y">>}

\* the source texts passed to update_source: MaxLines lines each
Contents == {join_lines(ls) : ls \in [1..MaxLines -> SourceLines]}

\* compiler outputs; the empty one is what the caches return for "absent"
Outputs == {<<>>, <<"p">>}

UnitsOfFile(f) == {id \in UnitIds : Catalogue[id].file_path = f}

\* The unit lists a caller registers for a file: pairwise distinct ids whose
\* start lines differ, so std::sort's order on equal keys does not arise.
Layouts(f) ==
    IF f = "A"
    THEN {{}, {"aS"}, {"aL", "aS"}, {"aC", "aL", "aS"}, {"aC", "aF", "aS"}}
    ELSE {{}, {"bS"}}

\* the list in the order the parser emits it: by start line
LayoutSeq(U) ==
    CHOOSE p \in Perms(U) :
        \A i, j \in DOMAIN p :
            i < j => Catalogue[p[i]].start_line < Catalogue[p[j]].start_line

EdgeCount == Cardinality({<<a, b>> \in (DOMAIN units_) \X UnitIds :
                              b \in Range(units_[a].dependencies)})

\* what `last` records of a call: its name and arguments, and for
\* update_source whether it took the first-snapshot path, the changed lines it
\* computed and whether it repeats the call before it
NoCall == [op |-> "none", file |-> "-", id |-> "-", out |-> <<>>, text |-> <<>>,
           first |-> FALSE, lines |-> <<>>, repeat |-> FALSE, ids |-> {}, to |-> "-",
           result |-> <<>>, before |-> <<>>,
           key |-> "-", value |-> "-", ret |-> "-", evicted |-> {},
           evictions |-> <<>>]

Idle == [file |-> "-", stage |-> "idle", kind |-> "-"]

-----------------------------------------------------------------------------
(* The engine as a state machine *)

EngineInit ==
    /\ units_ = EmptyMap
    /\ file_units_ = [f \in Files |-> <<>>]
    /\ cache_ = EmptyMap
    /\ snapshots_ = EmptyMap
    /\ units_to_compile_ = <<>>
    /\ changes = <<>>
    /\ last = NoCall
    /\ cycle = Idle
    /\ done = {}
    /\ nops = 0

DiffIdle ==
    /\ old_lines = <<>>
    /\ new_lines = <<>>
    /\ changed = <<>>
    /\ lcs = <<>>
    /\ dpc = "off"
    /\ old_units = EmptyMap
    /\ new_units = EmptyMap
    /\ records = <<>>

\* no cache object of the cache library has been constructed
LfuIdle ==
    /\ lfu = <<>>
    /\ lfu_count = <<>>

BuildIdle ==
    /\ build = <<>>
    /\ build_abs = <<>>
    /\ cc = <<>>
    /\ cc_abs = <<>>
    /\ shared = <<>>
    /\ mutex_ = "free"
    /\ threads = <<>>
    /\ serial = <<>>

CacheIdle ==
    /\ lru = <<>>
    /\ lru_abs = <<>>
    /\ LfuIdle
    /\ BuildIdle

Init == EngineInit /\ DiffIdle /\ CacheIdle

\* a round is complete once the work list of an updated file is empty
DoneAfter(cyc, utc) ==
    IF cyc.stage = "updated" /\ utc = <<>> THEN done \cup {cyc.file} ELSE done

RegisterUnits(f, U) ==
    /\ \E m \in {register_units(Manager, f,
                    [i \in 1..Cardinality(U) |-> NewUnit(LayoutSeq(U)[i])])} :
           /\ units_' = m.units
           /\ file_units_' = m.file_units
    /\ last' = [NoCall EXCEPT !.op = "register_units", !.file = f, !.ids = U]
    /\ cycle' = [file |-> f, stage |-> "registered",
                 kind |-> IF f \in done THEN "again" ELSE "new"]
    /\ nops' = nops + 1
    /\ UNCHANGED <<cache_, snapshots_, units_to_compile_, changes, done>>

\* update_source when a snapshot of the file exists: the units and the
\* affected set after the loop over the changed lines and the expansion
DiffResult(f, new_snap) ==
    LET changed_lines == get_changed_lines(snapshots_[f], new_snap)
        visited == VisitEach([units |-> units_, affected |-> {}],
                             UnitsOnLines(Manager, f, changed_lines))
        expanded == expand_to_boundaries(visited.units, file_units_, f, visited.affected)
    IN  [units |-> expanded.units, ids |-> expanded.ids, lines |-> changed_lines]

\* the diff path of update_source were it to leave out units_to_compile_.clear()
UpdateDiffKeepsPending(f, new_content, new_snap) ==
    \E r \in {DiffResult(f, new_snap)} :
        \E order \in Perms(r.ids) :
            /\ units_' = r.units
            /\ changes' = [i \in 1..Len(SelectSeq(order, LAMBDA id : id \in DOMAIN r.units)) |->
                              ChangeRecord(r.units,
                                  SelectSeq(order, LAMBDA id : id \in DOMAIN r.units)[i])]
            /\ units_to_compile_' = units_to_compile_ \o order
            /\ last' = [NoCall EXCEPT
                          !.op = "update_source", !.file = f,
                          !.text = new_content, !.lines = r.lines,
                          !.repeat = /\ last.op = "update_source"
                                     /\ last.file = f
                                     /\ last.text = new_content]

\* the records and the work list follow the iteration order of affected_ids
\* (an unordered_set): any order
UpdateDiff(f, new_content, new_snap) ==
    \E r \in {DiffResult(f, new_snap)} :
        \E order \in Perms(r.ids) :
            LET known == SelectSeq(order, LAMBDA id : id \in DOMAIN r.units)
            IN  /\ units_' = r.units
                /\ changes' = [i \in 1..Len(known) |-> ChangeRecord(r.units, known[i])]
                /\ units_to_compile_' = order
                /\ last' = [NoCall EXCEPT
                              !.op = "update_source", !.file = f,
                              !.text = new_content, !.lines = r.lines,
                              !.repeat = /\ last.op = "update_source"
                                         /\ last.file = f
                                         /\ last.text = new_content]

\* the first-snapshot path were it to start the work list afresh
UpdateFirstClears(f, new_content) ==
    LET ids == get_units_by_file(Manager, f)
        added == [x \in DOMAIN units_ |->
                    IF x \in Range(ids) THEN [units_[x] EXCEPT !.state = "ADDED"]
                    ELSE units_[x]]
    IN  /\ units_' = added
        /\ units_to_compile_' = ids
        /\ changes' = [i \in 1..Len(ids) |-> ChangeRecord(added, ids[i])]
        /\ last' = [NoCall EXCEPT !.op = "update_source", !.file = f,
                                  !.text = new_content, !.first = TRUE]

\* update_source on the first snapshot of the file
UpdateFirst(f, new_content) ==
    LET ids == get_units_by_file(Manager, f)
        added == [x \in DOMAIN units_ |->
                    IF x \in Range(ids) THEN [units_[x] EXCEPT !.state = "ADDED"]
                    ELSE units_[x]]
    IN  /\ units_' = added
        /\ units_to_compile_' = units_to_compile_ \o ids
        /\ changes' = [i \in 1..Len(ids) |-> ChangeRecord(added, ids[i])]
        /\ last' = [NoCall EXCEPT !.op = "update_source", !.file = f,
                                  !.text = new_content, !.first = TRUE]

UpdateSource(f, new_content) ==
    /\ \E new_snap \in {create_snapshot(new_content)} :
           /\ IF f \in DOMAIN snapshots_
              THEN UpdateDiff(f, new_content, new_snap)
              ELSE UpdateFirst(f, new_content)
           /\ snapshots_' = Put(snapshots_, f, new_snap)
    /\ cycle' = IF cycle.file = f /\ cycle.stage = "registered"
                   /\ (f \notin DOMAIN snapshots_ \/ cycle.kind = "again")
                THEN [cycle EXCEPT !.stage = "updated",
                                   !.kind = IF f \in DOMAIN snapshots_ THEN "again" ELSE "first"]
                ELSE Idle
    /\ done' = DoneAfter(cycle', units_to_compile_')
    /\ nops' = nops + 1
    /\ UNCHANGED <<file_units_, cache_>>

\* mark_compiled were the erase inside the branch of a known unit
MarkCompiledKnownOnly(unit_id, output) ==
    /\ IF unit_id \in DOMAIN units_
       THEN /\ units_' = [units_ EXCEPT ![unit_id].cached_output = output,
                                        ![unit_id].cache_valid = TRUE,
                                        ![unit_id].state = "UNCHANGED"]
            /\ cache_' = cache_put(cache_, unit_id, output, units_[unit_id].content_hash)
            /\ units_to_compile_' = Remove(units_to_compile_, unit_id)
       ELSE UNCHANGED <<units_, cache_, units_to_compile_>>
    /\ last' = [NoCall EXCEPT !.op = "mark_compiled", !.id = unit_id, !.out = output]
    /\ cycle' = IF cycle.stage = "updated" /\ output = <<>> THEN Idle ELSE cycle
    /\ done' = DoneAfter(cycle', units_to_compile_')
    /\ nops' = nops + 1
    /\ UNCHANGED <<file_units_, snapshots_, changes>>

MarkCompiled(unit_id, output) ==
    /\ IF unit_id \in DOMAIN units_
       THEN /\ units_' = [units_ EXCEPT ![unit_id].cached_output = output,
                                        ![unit_id].cache_valid = TRUE,
                                        ![unit_id].state = "UNCHANGED"]
            /\ cache_' = cache_put(cache_, unit_id, output, units_[unit_id].content_hash)
       ELSE UNCHANGED <<units_, cache_>>
    /\ units_to_compile_' = Remove(units_to_compile_, unit_id)
    /\ last' = [NoCall EXCEPT !.op = "mark_compiled", !.id = unit_id, !.out = output]
    /\ cycle' = IF cycle.stage = "updated" /\ output = <<>> THEN Idle ELSE cycle
    /\ done' = DoneAfter(cycle', units_to_compile_')
    /\ nops' = nops + 1
    /\ UNCHANGED <<file_units_, snapshots_, changes>>

\* units().add_dependency(from_id, to_id)
AddDependency(from_id, to_id) ==
    /\ EdgeCount < MaxDeps
    /\ units_' = add_dependency(Manager, from_id, to_id).units
    /\ last' = [NoCall EXCEPT !.op = "add_dependency", !.id = from_id, !.to = to_id,
                              !.repeat = /\ last.op = "add_dependency"
                                         /\ last.id = from_id
                                         /\ last.to = to_id]
    /\ nops' = nops + 1
    /\ UNCHANGED <<file_units_, cache_, snapshots_, units_to_compile_, changes, cycle, done>>

\* the caller rewrites a stored unit with a new content hash:
\* units().update_unit(id, u) with u the stored unit but for content_hash
UpdateUnit(id) ==
    /\ id \in DOMAIN units_
    /\ units_' = update_unit(Manager, id,
                             [units_[id] EXCEPT !.content_hash = <<"h", id, "edited">>]).units
    /\ last' = [NoCall EXCEPT !.op = "update_unit", !.id = id]
    /\ cycle' = Idle
    /\ nops' = nops + 1
    /\ UNCHANGED <<file_units_, cache_, snapshots_, units_to_compile_, changes, done>>

\* ids worth passing to mark_compiled: the stored ones, the pending ones and
\* one id the engine holds nowhere
MarkIds == (DOMAIN units_) \cup Range(units_to_compile_) \cup {"zz"}

\* the calls a client of the engine makes
CallRegister(files) ==
    \E f \in files : \E U \in Layouts(f) : RegisterUnits(f, U)

CallUpdate(files) ==
    \E f \in files : \E c \in Contents : UpdateSource(f, c)

CallMark(ids, outs) ==
    \E id \in ids : \E out \in outs : MarkCompiled(id, out)

CallAddDependency ==
    \E a, b \in DOMAIN units_ : AddDependency(a, b)

CallUpdateUnit ==
    \E id \in DOMAIN units_ : UpdateUnit(id)

Next ==
    \/ nops < MaxOps /\ CallRegister(Files) /\ UNCHANGED <<diffVars, cacheVars>>
    \/ nops < MaxOps /\ CallUpdate(Files) /\ UNCHANGED <<diffVars, cacheVars>>
    \/ nops < MaxOps /\ CallMark(MarkIds, Outputs) /\ UNCHANGED <<diffVars, cacheVars>>
    \/ nops < MaxOps /\ CallAddDependency /\ UNCHANGED <<diffVars, cacheVars>>
    \/ nops < MaxOps /\ CallUpdateUnit /\ UNCHANGED <<diffVars, cacheVars>>

\* any calls in any order, MaxOps of them
Spec == Init /\ [][Next]_vars

-----------------------------------------------------------------------------
(* The engine driven as its caller contract describes: register a file      *)
(* version, assert its dependency edges, update the source, compile every   *)
(* unit of the work list in order, and only then edit or register again.    *)

CallerMay(op) ==
    CASE op = "register_units" ->
            \/ last.op = "none"
            \/ last.op \in {"update_source", "mark_compiled"} /\ units_to_compile_ = <<>>
      [] op = "add_dependency" ->
            last.op \in {"register_units", "add_dependency"}
      [] op = "update_source" ->
            \/ last.op \in {"register_units", "add_dependency"}
            \/ last.op \in {"update_source", "mark_compiled"} /\ units_to_compile_ = <<>>
      [] op = "mark_compiled" ->
            last.op \in {"update_source", "mark_compiled"} /\ units_to_compile_ # <<>>

\* the caller of the rounds works on one file
RoundFiles == {"A"}

RoundsNext ==
    \/ /\ nops < MaxRoundOps
       /\ CallerMay("register_units")
       /\ CallRegister(RoundFiles)
       /\ UNCHANGED <<diffVars, cacheVars>>
    \/ /\ nops < MaxRoundOps
       /\ CallerMay("add_dependency")
       /\ CallAddDependency
       /\ UNCHANGED <<diffVars, cacheVars>>
    \/ /\ nops < MaxRoundOps
       /\ CallerMay("update_source")
       /\ CallUpdate(RoundFiles)
       /\ UNCHANGED <<diffVars, cacheVars>>
    \/ /\ nops < MaxRoundOps
       /\ CallerMay("mark_compiled")
       /\ CallMark({Head(units_to_compile_)}, Outputs \ {<<>>})
       /\ UNCHANGED <<diffVars, cacheVars>>

SpecRounds == Init /\ [][RoundsNext]_vars

-----------------------------------------------------------------------------
(* The change detector on its own: every pair of line-hash sequences *)

\* the lines the two texts are made of; two of them hash alike
DiffLines == {<<"x">>, <<"y">>, <<"z">>, <<" ", "x">>, <<" ">>}

LineHashes == {compute_line_hash(l) : l \in DiffLines}

DiffInit ==
    /\ old_lines \in SeqsUpTo(LineHashes, MaxDiffLen)
    /\ new_lines \in SeqsUpTo(LineHashes, MaxDiffLen)
    /\ changed = <<>>
    /\ lcs = <<>>
    /\ dpc = "in"
    /\ old_units = EmptyMap
    /\ new_units = EmptyMap
    /\ records = <<>>

Detect ==
    /\ dpc = "in"
    /\ lcs' = compute_lcs(old_lines, new_lines)
    /\ changed' = get_changed_lines(old_lines, new_lines)
    /\ dpc' = "out"
    /\ UNCHANGED <<old_lines, new_lines, unitDiffVars>>

InitDiff == EngineInit /\ DiffInit /\ CacheIdle

DiffNext == Detect /\ UNCHANGED <<engineVars, cacheVars>>

SpecDiff == InitDiff /\ [][DiffNext]_vars

-----------------------------------------------------------------------------
(* detect_changes on its own: every pair of unit maps over three ids *)

SnapIds == {"aL", "aS", "bS"}

\* the versions of a unit a snapshot may hold: two contents, two line ranges
Versions(id) ==
    {[NewUnit(id) EXCEPT !.content_hash = h, !.start_line = r[1], !.end_line = r[2]] :
        h \in {<<"h", id>>, <<"h", id, "edited">>}, r \in {<<1, 1>>, <<2, 3>>}}

\* what a snapshot holds of an id: nothing, or one of its versions
SnapUnits ==
    UNION {{u \in [I -> UNION {Versions(id) : id \in I}] : \A id \in I : u[id].id = id} :
              I \in SUBSET SnapIds}

InitDetect ==
    /\ EngineInit
    /\ old_lines = <<>>
    /\ new_lines = <<>>
    /\ changed = <<>>
    /\ lcs = <<>>
    /\ dpc = "units in"
    /\ old_units \in SnapUnits
    /\ new_units \in SnapUnits
    /\ records = <<>>
    /\ CacheIdle

DetectChanges ==
    /\ dpc = "units in"
    /\ \E g \in [SnapIds -> Garbage] :
           records' \in detect_changes(old_units, new_units, g)
    /\ dpc' = "units out"
    /\ UNCHANGED <<lineVars, old_units, new_units>>

DetectNext == DetectChanges /\ UNCHANGED <<engineVars, cacheVars>>

SpecDetect == InitDetect /\ [][DetectNext]_vars

-----------------------------------------------------------------------------
(* The dependency graph on its own: every graph over three stored units,  *)
(* some of them listing as a dependent an id the map does not hold        *)

GraphIds == {"aL", "aS", "bS"}

\* the ids of a set as one list
SetToSeq(S) == CHOOSE q \in Perms(S) : TRUE

\* the manager holding GraphIds with the edges E (from, to) and the units of
\* D listing the unstored "zz" among their dependents
GraphManager(E, D) ==
    [units |-> [id \in GraphIds |->
                  [NewUnit(id) EXCEPT
                     !.dependencies = SetToSeq({y \in GraphIds : <<id, y>> \in E}),
                     !.dependents = SetToSeq({y \in GraphIds : <<y, id>> \in E}
                                             \cup (IF id \in D THEN {"zz"} ELSE {}))]],
     file_units |-> [f \in Files |-> SetToSeq({id \in GraphIds : NewUnit(id).file_path = f})]]

InitGraph ==
    /\ \E E \in SUBSET (GraphIds \X GraphIds) : \E D \in SUBSET GraphIds :
           /\ units_ = GraphManager(E, D).units
           /\ file_units_ = GraphManager(E, D).file_units
    /\ cache_ = EmptyMap
    /\ snapshots_ = EmptyMap
    /\ units_to_compile_ = <<>>
    /\ changes = <<>>
    /\ last = NoCall
    /\ cycle = Idle
    /\ done = {}
    /\ nops = 0
    /\ DiffIdle
    /\ CacheIdle

\* units().get_affected_units(changed_id): the vector is filled from an
\* unordered_set, in any order
GetAffectedUnits(changed_id) ==
    /\ \E order \in Perms(get_affected_units(units_, changed_id)) :
           last' = [NoCall EXCEPT !.op = "get_affected_units", !.id = changed_id,
                                  !.result = order]
    /\ nops' = nops + 1
    /\ UNCHANGED <<units_, file_units_, cache_, snapshots_, units_to_compile_, changes,
                   cycle, done>>

GraphNext ==
    /\ nops < MaxQueries
    /\ \E x \in GraphIds \cup {"zz"} : GetAffectedUnits(x)
    /\ UNCHANGED <<diffVars, cacheVars>>

SpecGraph == InitGraph /\ [][GraphNext]_vars

-----------------------------------------------------------------------------
(* The unit manager driven directly, from empty, with units supplied       *)
(* without edges                                                           *)

\* units().add_unit(unit)
AddUnit(id) ==
    /\ \E m \in {add_unit(Manager, NewUnit(id))} :
           /\ units_' = m.units
           /\ file_units_' = m.file_units
    /\ last' = [NoCall EXCEPT !.op = "add_unit", !.id = id]
    /\ nops' = nops + 1
    /\ UNCHANGED <<cache_, snapshots_, units_to_compile_, changes, cycle, done>>

\* units().remove_unit(id)
RemoveUnit(id) ==
    /\ \E m \in {remove_unit(Manager, id)} :
           /\ units_' = m.units
           /\ file_units_' = m.file_units
    /\ last' = [NoCall EXCEPT !.op = "remove_unit", !.id = id]
    /\ nops' = nops + 1
    /\ UNCHANGED <<cache_, snapshots_, units_to_compile_, changes, cycle, done>>

\* units().remove_dependency(from_id, to_id)
RemoveDependency(from_id, to_id) ==
    /\ units_' = remove_dependency(Manager, from_id, to_id).units
    /\ last' = [NoCall EXCEPT !.op = "remove_dependency", !.id = from_id, !.to = to_id]
    /\ nops' = nops + 1
    /\ UNCHANGED <<file_units_, cache_, snapshots_, units_to_compile_, changes, cycle, done>>

\* the lists registered for a file, out of the units of GraphIds
UnitLayouts(f) == {U \in Layouts(f) : U \subseteq GraphIds}

UnitsNext ==
    \/ nops < MaxUnitOps /\ (\E id \in GraphIds : AddUnit(id)) /\ UNCHANGED <<diffVars, cacheVars>>
    \/ nops < MaxUnitOps /\ (\E id \in GraphIds : RemoveUnit(id)) /\ UNCHANGED <<diffVars, cacheVars>>
    \/ nops < MaxUnitOps /\ (\E a, b \in GraphIds : AddDependency(a, b))
          /\ UNCHANGED <<diffVars, cacheVars>>
    \/ nops < MaxUnitOps /\ (\E a, b \in GraphIds : RemoveDependency(a, b))
          /\ UNCHANGED <<diffVars, cacheVars>>
    \/ nops < MaxUnitOps /\ (\E f \in Files : \E U \in UnitLayouts(f) : RegisterUnits(f, U))
          /\ UNCHANGED <<diffVars, cacheVars>>

SpecUnits == Init /\ [][UnitsNext]_vars

-----------------------------------------------------------------------------
(* A manager built by add_unit and add_dependency, written out and read     *)
(* back                                                                     *)

\* data = units().serialize(); units().deserialize(data)
Reload ==
    /\ \E written \in Perms(DOMAIN units_) :
        \E data \in {serialize(units_, written)} :
        \E rebuilt \in Perms(DOMAIN ReadManager(data).units) :
        \E m \in {deserialize(data, rebuilt)} :
           /\ units_' = m.units
           /\ file_units_' = m.file_units
    /\ last' = [NoCall EXCEPT !.op = "deserialize", !.before = units_]
    /\ nops' = nops + 1
    /\ UNCHANGED <<cache_, snapshots_, units_to_compile_, changes, cycle, done>>

SerialNext ==
    \/ /\ nops < MaxSerialOps
       /\ last.op # "deserialize"
       /\ \E id \in GraphIds : AddUnit(id)
       /\ UNCHANGED <<diffVars, cacheVars>>
    \/ /\ nops < MaxSerialOps
       /\ last.op # "deserialize"
       /\ \E a, b \in GraphIds : AddDependency(a, b)
       /\ UNCHANGED <<diffVars, cacheVars>>
    \/ /\ nops < MaxSerialOps
       /\ last.op # "deserialize"
       /\ Reload
       /\ UNCHANGED <<diffVars, cacheVars>>

SpecSerial == Init /\ [][SerialNext]_vars

-----------------------------------------------------------------------------
(* LRUCache.  usage_order_ is a std::list: a sequence of nodes, each with   *)
(* an identity that a cursor (list iterator) designates; cache_ maps a key  *)
(* to its value and cursor.                                                *)

CacheKeys == {"a", "b", "c"}
CacheValues == {"1", "2"}

\* the identity of a newly allocated list node: one no node of the list has
FreshNode(list) == CHOOSE n \in 1..(Len(list) + 1) : \A i \in DOMAIN list : list[i].node # n

\* list.push_front(key)
PushFront(list, key) == <<[node |-> FreshNode(list), key |-> key]>> \o list

\* list.erase(cursor)
ListErase(list, cursor) == SelectSeq(list, LAMBDA e : e.node # cursor)

\* what back() yields and pop_back() leaves of an empty list: undefined
\* behaviour, here a node that is no key's
GarbageNode == [node |-> 0, key |-> "?"]

\* LRUCache(max_size)
NewLRU(max_size) ==
    [max_size_ |-> max_size, cache_ |-> EmptyMap, usage_order_ |-> <<>>, crashed |-> FALSE]

lru_size(c) == Cardinality(DOMAIN c.cache_)

lru_contains(c, key) == key \in DOMAIN c.cache_

\* lru_key = usage_order_.back(); usage_order_.pop_back(); cache_.erase(lru_key).
\* On an empty list both calls are undefined: the process dies, or goes on
\* with a key that is not stored and a list in either of two conditions.
LruEvictBack(c) ==
    IF c.usage_order_ # <<>>
    THEN {[c EXCEPT !.usage_order_ = SubSeq(@, 1, Len(@) - 1),
                    !.cache_ = Drop(@, c.usage_order_[Len(c.usage_order_)].key)]}
    ELSE {[c EXCEPT !.crashed = TRUE], c, [c EXCEPT !.usage_order_ = <<GarbageNode>>]}

\* the tail of put for a key not stored
LruInsert(c, key, value) ==
    LET list == PushFront(c.usage_order_, key)
    IN  [c EXCEPT !.usage_order_ = list,
                  !.cache_ = Put(@, key, [value |-> value, cursor |-> list[1].node])]

\* the branch of put and get for a stored key: the node is erased and a new
\* one pushed at the front
LruTouch(c, key) ==
    LET list == PushFront(ListErase(c.usage_order_, c.cache_[key].cursor), key)
    IN  [c EXCEPT !.usage_order_ = list, !.cache_[key].cursor = list[1].node]

\* put: the cache objects it may leave and what it returns
lru_put(c, key, value) ==
    IF key \in DOMAIN c.cache_
    THEN {[c |-> [LruTouch(c, key) EXCEPT !.cache_[key].value = value], ret |-> TRUE]}
    ELSE {IF e.crashed THEN [c |-> e, ret |-> "-"]
          ELSE [c |-> LruInsert(e, key, value), ret |-> TRUE] :
             e \in IF lru_size(c) >= c.max_size_ THEN LruEvictBack(c) ELSE {c}}

\* get were it to leave the recency list alone
lru_get_no_touch(c, key) ==
    IF key \notin DOMAIN c.cache_ THEN [c |-> c, ret |-> ""]
    ELSE [c |-> c, ret |-> c.cache_[key].value]

lru_get(c, key) ==
    IF key \notin DOMAIN c.cache_ THEN [c |-> c, ret |-> ""]
    ELSE [c |-> LruTouch(c, key), ret |-> c.cache_[key].value]

lru_remove(c, key) ==
    IF key \notin DOMAIN c.cache_ THEN [c |-> c, ret |-> FALSE]
    ELSE [c |-> [c EXCEPT !.usage_order_ = ListErase(@, c.cache_[key].cursor),
                          !.cache_ = Drop(@, key)],
          ret |-> TRUE]

lru_clear(c) == [c EXCEPT !.cache_ = EmptyMap, !.usage_order_ = <<>>]

\* the loop of set_max_size; with entries left and an empty list it would
\* not end
RECURSIVE LruShrink(_)
LruShrink(c) ==
    IF lru_size(c) <= c.max_size_ THEN c
    ELSE IF c.usage_order_ = <<>> THEN [c EXCEPT !.crashed = TRUE]
    ELSE LruShrink(CHOOSE e \in LruEvictBack(c) : TRUE)

lru_set_max_size(c, max_size) == LruShrink([c EXCEPT !.max_size_ = max_size])

-----------------------------------------------------------------------------
(* The least-recently-used map an LRUCache stands for: every stored key    *)
(* with its value and the time of its last put or successful get           *)

NewAbs(capacity) ==
    [capacity |-> capacity, clock |-> 0, val |-> EmptyMap, stamp |-> EmptyMap,
     ok |-> capacity >= 1]

\* the stored key used longest ago
Oldest(a) == CHOOSE k \in DOMAIN a.val : \A x \in DOMAIN a.val : a.stamp[k] <= a.stamp[x]

AbsEvict(a) == [a EXCEPT !.val = Drop(@, Oldest(a)), !.stamp = Drop(@, Oldest(a))]

AbsUse(a, key, value) ==
    [a EXCEPT !.clock = a.clock + 1,
              !.val = Put(@, key, value),
              !.stamp = Put(@, key, a.clock + 1)]

AbsPut(a, key, value) ==
    IF ~a.ok THEN a
    ELSE IF key \notin DOMAIN a.val /\ Cardinality(DOMAIN a.val) >= a.capacity
    THEN AbsUse(AbsEvict(a), key, value)
    ELSE AbsUse(a, key, value)

AbsGetValue(a, key) == IF key \in DOMAIN a.val THEN a.val[key] ELSE ""

AbsGet(a, key) ==
    IF a.ok /\ key \in DOMAIN a.val THEN AbsUse(a, key, a.val[key]) ELSE a

AbsRemove(a, key) == [a EXCEPT !.val = Drop(@, key), !.stamp = Drop(@, key)]

AbsClear(a) == [a EXCEPT !.val = EmptyMap, !.stamp = EmptyMap]

RECURSIVE AbsShrink(_)
AbsShrink(a) ==
    IF Cardinality(DOMAIN a.val) <= a.capacity THEN a ELSE AbsShrink(AbsEvict(a))

\* a capacity of 0 is outside what the map describes, from then on
AbsSetMaxSize(a, n) ==
    AbsShrink([a EXCEPT !.capacity = n, !.ok = a.ok /\ n >= 1])

-----------------------------------------------------------------------------
(* One LRUCache of any capacity, called by one thread *)

InitLRU ==
    /\ EngineInit
    /\ DiffIdle
    /\ \E n \in 0..MaxCapacity :
           /\ lru = NewLRU(n)
           /\ lru_abs = NewAbs(n)
    /\ LfuIdle
    /\ BuildIdle

LruFrame ==
    /\ nops' = nops + 1
    /\ UNCHANGED <<engineState, diffVars, lfuVars, buildVars, ccVars, threadVars>>

LruPut(key, value) ==
    /\ \E r \in lru_put(lru, key, value) :
           /\ lru' = r.c
           /\ last' = [NoCall EXCEPT !.op = "put", !.key = key, !.value = value,
                                     !.ret = r.ret,
                                     !.evicted = DOMAIN lru.cache_ \ DOMAIN r.c.cache_]
    /\ lru_abs' = AbsPut(lru_abs, key, value)
    /\ LruFrame

LruGet(key) ==
    /\ \E r \in {lru_get(lru, key)} :
           /\ lru' = r.c
           /\ last' = [NoCall EXCEPT !.op = "get", !.key = key, !.ret = r.ret]
    /\ lru_abs' = AbsGet(lru_abs, key)
    /\ LruFrame

LruRemove(key) ==
    /\ \E r \in {lru_remove(lru, key)} :
           /\ lru' = r.c
           /\ last' = [NoCall EXCEPT !.op = "remove", !.key = key, !.ret = r.ret]
    /\ lru_abs' = AbsRemove(lru_abs, key)
    /\ LruFrame

LruClear ==
    /\ lru' = lru_clear(lru)
    /\ last' = [NoCall EXCEPT !.op = "clear"]
    /\ lru_abs' = AbsClear(lru_abs)
    /\ LruFrame

LruSetMaxSize(n) ==
    /\ lru' = lru_set_max_size(lru, n)
    /\ last' = [NoCall EXCEPT !.op = "set_max_size", !.ret = n,
                              !.evicted = DOMAIN lru.cache_ \ DOMAIN lru'.cache_]
    /\ lru_abs' = AbsSetMaxSize(lru_abs, n)
    /\ LruFrame

\* a call is made while the process lives
LruCallable == nops < MaxCacheOps /\ ~lru.crashed

LruNext ==
    \/ LruCallable /\ \E k \in CacheKeys, v \in CacheValues : LruPut(k, v)
    \/ LruCallable /\ \E k \in CacheKeys : LruGet(k)
    \/ LruCallable /\ \E k \in CacheKeys : LruRemove(k)
    \/ LruCallable /\ LruClear
    \/ LruCallable /\ \E n \in 0..MaxCapacity : LruSetMaxSize(n)

SpecLRU == InitLRU /\ [][LruNext]_vars

-----------------------------------------------------------------------------
(* LFUCache.  freq_map_ maps a frequency to a std::list of keys, cache_ a   *)
(* key to its value, frequency and cursor into the list of that frequency. *)

\* LFUCache(max_size)
NewLFU(max_size) ==
    [max_size_ |-> max_size, cache_ |-> EmptyMap, freq_map_ |-> EmptyMap,
     min_frequency_ |-> 0, crashed |-> FALSE]

lfu_size(c) == Cardinality(DOMAIN c.cache_)

\* freq_map_[f]: operator[] makes an empty list where there is none
FreqList(c, f) == IF f \in DOMAIN c.freq_map_ THEN c.freq_map_[f] ELSE <<>>

\* the frequency bump of put and get on a stored key
LfuBump(c, key) ==
    LET old_freq == c.cache_[key].frequency
        new_freq == old_freq + 1
        old_list == ListErase(FreqList(c, old_freq), c.cache_[key].usage_iter)
        new_list == PushFront(FreqList(c, new_freq), key)
    IN  [c EXCEPT !.freq_map_ = Put(Put(@, old_freq, old_list), new_freq, new_list),
                  !.min_frequency_ = IF old_list = <<>> /\ old_freq = @ THEN @ + 1 ELSE @,
                  !.cache_[key].frequency = new_freq,
                  !.cache_[key].usage_iter = new_list[1].node]

\* what an eviction tells of itself: whether the list at min_frequency_
\* held a victim, and whether the victim's frequency was the least stored
Eviction(c) ==
    LET list == FreqList(c, c.min_frequency_)
    IN  IF list = <<>> THEN [key |-> "?", found |-> FALSE, least |-> FALSE]
        ELSE LET key == list[Len(list)].key
             IN  [key |-> key, found |-> TRUE,
                  least |-> /\ key \in DOMAIN c.cache_
                            /\ \A x \in DOMAIN c.cache_ :
                                  c.cache_[key].frequency <= c.cache_[x].frequency]

\* lfu_key = freq_map_[min_frequency_].back(); pop_back(); cache_.erase(lfu_key).
\* On an empty list both calls are undefined: the process dies, or goes on
\* with a key that is not stored and a list in either of two conditions.
LfuEvict(c) ==
    LET f == c.min_frequency_
        list == FreqList(c, f)
    IN  IF list # <<>>
        THEN {[c EXCEPT !.freq_map_ = Put(@, f, SubSeq(list, 1, Len(list) - 1)),
                        !.cache_ = Drop(@, list[Len(list)].key)]}
        ELSE {[c EXCEPT !.crashed = TRUE],
              [c EXCEPT !.freq_map_ = Put(@, f, <<>>)],
              [c EXCEPT !.freq_map_ = Put(@, f, <<GarbageNode>>)]}

\* the tail of put for a key not stored
LfuInsert(c, key, value) ==
    LET list == PushFront(FreqList(c, 1), key)
    IN  [c EXCEPT !.min_frequency_ = 1,
                  !.freq_map_ = Put(@, 1, list),
                  !.cache_ = Put(@, key, [value |-> value, frequency |-> 1,
                                          usage_iter |-> list[1].node])]

\* put: the cache objects it may leave, what it returns and its evictions
lfu_put(c, key, value) ==
    IF key \in DOMAIN c.cache_
    THEN {[c |-> [LfuBump(c, key) EXCEPT !.cache_[key].value = value], ret |-> TRUE,
           evictions |-> <<>>]}
    ELSE IF lfu_size(c) >= c.max_size_
    THEN {IF e.crashed THEN [c |-> e, ret |-> "-", evictions |-> <<Eviction(c)>>]
          ELSE [c |-> LfuInsert(e, key, value), ret |-> TRUE,
                evictions |-> <<Eviction(c)>>] : e \in LfuEvict(c)}
    ELSE {[c |-> LfuInsert(c, key, value), ret |-> TRUE, evictions |-> <<>>]}

\* get were it to leave the frequency alone
lfu_get_no_bump(c, key) ==
    IF key \notin DOMAIN c.cache_ THEN [c |-> c, ret |-> ""]
    ELSE [c |-> c, ret |-> c.cache_[key].value]

lfu_get(c, key) ==
    IF key \notin DOMAIN c.cache_ THEN [c |-> c, ret |-> ""]
    ELSE [c |-> LfuBump(c, key), ret |-> c.cache_[key].value]

lfu_remove(c, key) ==
    IF key \notin DOMAIN c.cache_ THEN [c |-> c, ret |-> FALSE]
    ELSE LET freq == c.cache_[key].frequency
             list == ListErase(FreqList(c, freq), c.cache_[key].usage_iter)
         IN  [c |-> [c EXCEPT !.freq_map_ = Put(@, freq, list),
                              !.min_frequency_ =
                                  IF list = <<>> /\ freq = @ THEN @ + 1 ELSE @,
                              !.cache_ = Drop(@, key)],
              ret |-> TRUE]

lfu_clear(c) == [c EXCEPT !.cache_ = EmptyMap, !.freq_map_ = EmptyMap, !.min_frequency_ = 0]

\* the loop of set_max_size, once max_size_ is set: the cache it leaves and
\* its evictions.  With an empty list at min_frequency_ every round is
\* undefined and stores no fewer keys: the call dies or does not return.
RECURSIVE LfuShrink(_, _)
LfuShrink(c, evictions) ==
    IF lfu_size(c) <= c.max_size_ THEN [c |-> c, evictions |-> evictions]
    ELSE IF FreqList(c, c.min_frequency_) = <<>>
    THEN [c |-> [c EXCEPT !.crashed = TRUE], evictions |-> Append(evictions, Eviction(c))]
    ELSE LfuShrink(CHOOSE e \in LfuEvict(c) : TRUE, Append(evictions, Eviction(c)))

lfu_set_max_size(c, max_size) == LfuShrink([c EXCEPT !.max_size_ = max_size], <<>>)

-----------------------------------------------------------------------------
(* One LFUCache of any capacity, called by one thread *)

InitLFU ==
    /\ EngineInit
    /\ DiffIdle
    /\ lru = <<>>
    /\ lru_abs = <<>>
    /\ \E n \in 0..MaxCapacity : lfu = NewLFU(n)
    /\ lfu_count = EmptyMap
    /\ BuildIdle

\* the count of successful calls on the keys the cache still stores
CountAfter(count, c) == [k \in DOMAIN c.cache_ |-> count[k]]

LfuFrame ==
    /\ nops' = nops + 1
    /\ UNCHANGED <<engineState, diffVars, lruVars, buildVars, ccVars, threadVars>>

LfuPut(key, value) ==
    /\ \E r \in lfu_put(lfu, key, value) :
           /\ lfu' = r.c
           /\ last' = [NoCall EXCEPT !.op = "put", !.key = key, !.value = value,
                                     !.ret = r.ret, !.evictions = r.evictions]
           /\ lfu_count' =
                 IF r.c.crashed THEN lfu_count
                 ELSE CountAfter(Put(lfu_count, key,
                                     IF key \in DOMAIN lfu.cache_
                                     THEN lfu_count[key] + 1 ELSE 1), r.c)
    /\ LfuFrame

LfuGet(key) ==
    /\ \E r \in {lfu_get(lfu, key)} :
           /\ lfu' = r.c
           /\ last' = [NoCall EXCEPT !.op = "get", !.key = key, !.ret = r.ret]
    /\ lfu_count' = IF key \in DOMAIN lfu.cache_
                    THEN [lfu_count EXCEPT ![key] = @ + 1] ELSE lfu_count
    /\ LfuFrame

LfuRemove(key) ==
    /\ \E r \in {lfu_remove(lfu, key)} :
           /\ lfu' = r.c
           /\ last' = [NoCall EXCEPT !.op = "remove", !.key = key, !.ret = r.ret]
    /\ lfu_count' = Drop(lfu_count, key)
    /\ LfuFrame

LfuClear ==
    /\ lfu' = lfu_clear(lfu)
    /\ last' = [NoCall EXCEPT !.op = "clear"]
    /\ lfu_count' = EmptyMap
    /\ LfuFrame

LfuSetMaxSize(n) ==
    /\ \E r \in {lfu_set_max_size(lfu, n)} :
           /\ lfu' = r.c
           /\ last' = [NoCall EXCEPT !.op = "set_max_size", !.ret = n,
                                     !.evictions = r.evictions]
           /\ lfu_count' = CountAfter(lfu_count, r.c)
    /\ LfuFrame

LfuCallable == nops < MaxCacheOps /\ ~lfu.crashed

LfuNext ==
    \/ LfuCallable /\ \E k \in CacheKeys, v \in CacheValues : LfuPut(k, v)
    \/ LfuCallable /\ \E k \in CacheKeys : LfuGet(k)
    \/ LfuCallable /\ \E k \in CacheKeys : LfuRemove(k)
    \/ LfuCallable /\ LfuClear
    \/ LfuCallable /\ \E n \in 0..MaxCapacity : LfuSetMaxSize(n)

SpecLFU == InitLFU /\ [][LfuNext]_vars

-----------------------------------------------------------------------------
(* BuildCache.  A std::string is a sequence of pieces of text; the hex     *)
(* text std::hash yields for a string is one piece of its own, a different *)
(* one for every string hashed.                                            *)

Ch(text) == [ch |-> text, of |-> <<>>]

calculate_string_hash(input) == <<[ch |-> "#", of |-> input]>>

\* file contents
Hello == <<Ch("hello")>>
World == <<Ch("world")>>
NoFile == [exists |-> FALSE, content |-> <<>>]
FileOf(content) == [exists |-> TRUE, content |-> content]

\* file names: two plain ones and one that holds a colon, the hash text of
\* a file content, a semicolon and "dep="
DepZ == <<Ch("z")>>
DepY == <<Ch("y")>>
DepW == DepZ \o <<Ch(":")>> \o calculate_string_hash(Hello) \o <<Ch(";"), Ch("dep=")>> \o DepZ
DepNames == {DepZ, DepY, DepW}

\* an unreadable file hashes to the empty string
calculate_file_hash(files, file_path) ==
    IF ~files[file_path].exists THEN <<>>
    ELSE calculate_string_hash(files[file_path].content)

calculate_command_hash(command) == calculate_string_hash(command)

\* the part of key_stream the loop over the dependencies writes
RECURSIVE DepStream(_, _)
DepStream(files, dependencies) ==
    IF dependencies = <<>> THEN <<>>
    ELSE <<Ch("dep=")>> \o Head(dependencies) \o <<Ch(":")>>
         \o calculate_file_hash(files, Head(dependencies)) \o <<Ch(";")>>
         \o DepStream(files, Tail(dependencies))

\* cache_key of cache_build_result and get_cached_build_result
CacheKey(files, target, command, dependencies) ==
    calculate_string_hash(
        <<Ch("target=")>> \o target \o <<Ch(";")>>
        \o <<Ch("command=")>> \o calculate_command_hash(command) \o <<Ch(";")>>
        \o DepStream(files, dependencies))

\* the virtual calls on cache_
PolicyPut(b, key, value) ==
    IF b.policy = "lfu" THEN {[c |-> r.c, ret |-> r.ret] : r \in lfu_put(b.cache_, key, value)}
    ELSE lru_put(b.cache_, key, value)

PolicyGet(b, key) == IF b.policy = "lfu" THEN lfu_get(b.cache_, key) ELSE lru_get(b.cache_, key)

PolicyClear(b) == IF b.policy = "lfu" THEN lfu_clear(b.cache_) ELSE lru_clear(b.cache_)

\* BuildCache(cache_dir, max_size): LRU by default
NewBuildCache(max_size, files) ==
    [policy |-> "lru", cache_ |-> NewLRU(max_size), files |-> files]

\* set_cache_strategy were it to size the new policy by the entries stored
set_cache_strategy_by_size(b, strategy) ==
    LET current_size == Cardinality(DOMAIN b.cache_.cache_)
    IN  IF strategy = "lfu"
        THEN [b EXCEPT !.policy = "lfu", !.cache_ = NewLFU(current_size)]
        ELSE [b EXCEPT !.policy = "lru", !.cache_ = NewLRU(current_size)]

set_cache_strategy(b, strategy) ==
    LET max_size == b.cache_.max_size_
    IN  IF strategy = "lfu"
        THEN [b EXCEPT !.policy = "lfu", !.cache_ = NewLFU(max_size)]
        ELSE [b EXCEPT !.policy = "lru", !.cache_ = NewLRU(max_size)]

\* cache_build_result: the BuildCache objects it may leave and what it returns
cache_build_result(b, target, command, dependencies, result) ==
    {[b |-> [b EXCEPT !.cache_ = r.c], ret |-> r.ret] :
        r \in PolicyPut(b, CacheKey(b.files, target, command, dependencies), result)}

get_cached_build_result(b, target, command, dependencies) ==
    LET r == PolicyGet(b, CacheKey(b.files, target, command, dependencies))
    IN  [b |-> [b EXCEPT !.cache_ = r.c], ret |-> r.ret]

needs_rebuild(b, target, command, dependencies) ==
    LET r == get_cached_build_result(b, target, command, dependencies)
    IN  [b |-> r.b, ret |-> r.ret = ""]

clean_all_cache(b) == [b EXCEPT !.cache_ = PolicyClear(b)]

-----------------------------------------------------------------------------
(* One BuildCache of capacity 1 or more, called by one thread, and the     *)
(* files of its dependencies, which anyone may write                       *)

Targets == {<<Ch("t")>>, <<Ch("u")>>}
Commands == {<<Ch("cc")>>, <<Ch("ld")>>}
Results == {"R1", "R2"}
Strategies == {"lru", "lfu", "fifo"}

Request(target, command, dependencies) ==
    [target |-> target, command |-> command, dependencies |-> dependencies]

\* the requests made: one, and those that differ from it in the target,
\* the command, the order of the dependencies or one dependency
BuildRequests ==
    {Request(<<Ch("t")>>, <<Ch("cc")>>, <<DepZ, DepW>>),
     Request(<<Ch("t")>>, <<Ch("cc")>>, <<DepW, DepZ>>),
     Request(<<Ch("u")>>, <<Ch("cc")>>, <<DepZ, DepW>>),
     Request(<<Ch("t")>>, <<Ch("ld")>>, <<DepZ, DepW>>),
     Request(<<Ch("t")>>, <<Ch("cc")>>, <<DepZ, DepY>>),
     Request(<<Ch("t")>>, <<Ch("cc")>>, <<DepY, DepZ>>),
     Request(<<Ch("t")>>, <<Ch("cc")>>, <<DepZ>>)}

\* what a request is made of when it is made: its three arguments and the
\* content of each dependency file
InputOf(files, q) ==
    [target |-> q.target, command |-> q.command, dependencies |-> q.dependencies,
     contents |-> [i \in DOMAIN q.dependencies |-> files[q.dependencies[i]]]]

\* the stored results whose key the policy still holds
Surviving(stored, b) ==
    [in \in {x \in DOMAIN stored : stored[x].key \in DOMAIN b.cache_.cache_} |-> stored[in]]

InitBuild ==
    /\ EngineInit
    /\ DiffIdle
    /\ lru = <<>>
    /\ lru_abs = <<>>
    /\ LfuIdle
    /\ \E n \in 1..MaxCapacity, files \in [DepNames -> {NoFile, FileOf(Hello)}] :
           build = NewBuildCache(n, files)
    /\ build_abs = [stored |-> EmptyMap, swapped |-> FALSE]
    /\ cc = <<>>
    /\ cc_abs = <<>>
    /\ shared = <<>>
    /\ mutex_ = "free"
    /\ threads = <<>>
    /\ serial = <<>>

BuildFrame ==
    /\ nops' = nops + 1
    /\ UNCHANGED <<engineState, diffVars, lruVars, lfuVars, ccVars, threadVars>>

CacheBuildResult(q, result) ==
    /\ \E r \in cache_build_result(build, q.target, q.command, q.dependencies, result) :
           /\ build' = r.b
           /\ last' = [NoCall EXCEPT !.op = "cache_build_result", !.key = q,
                                     !.value = result, !.ret = r.ret]
           /\ build_abs' =
                 [stored |-> Surviving(
                                 Put(build_abs.stored, InputOf(build.files, q),
                                     [result |-> result,
                                      key |-> CacheKey(build.files, q.target, q.command,
                                                       q.dependencies)]),
                                 r.b),
                  swapped |-> FALSE]
    /\ BuildFrame

GetCachedBuildResult(q) ==
    /\ \E r \in {get_cached_build_result(build, q.target, q.command, q.dependencies)} :
           /\ build' = r.b
           /\ last' = [NoCall EXCEPT !.op = "get_cached_build_result", !.key = q,
                                     !.ret = r.ret]
    /\ UNCHANGED build_abs
    /\ BuildFrame

NeedsRebuild(q) ==
    /\ \E r \in {needs_rebuild(build, q.target, q.command, q.dependencies)} :
           /\ build' = r.b
           /\ last' = [NoCall EXCEPT !.op = "needs_rebuild", !.key = q, !.ret = r.ret]
    /\ UNCHANGED build_abs
    /\ BuildFrame

SetCacheStrategy(strategy) ==
    /\ build' = set_cache_strategy(build, strategy)
    /\ last' = [NoCall EXCEPT !.op = "set_cache_strategy", !.key = strategy,
                              !.before = build.cache_.max_size_,
                              !.value = Cardinality(DOMAIN build.cache_.cache_)]
    /\ build_abs' = [stored |-> EmptyMap, swapped |-> TRUE]
    /\ BuildFrame

CleanAllCache ==
    /\ build' = clean_all_cache(build)
    /\ last' = [NoCall EXCEPT !.op = "clean_all_cache"]
    /\ build_abs' = [build_abs EXCEPT !.stored = EmptyMap]
    /\ BuildFrame

\* someone writes a dependency file
WriteFile(file_path, content) ==
    /\ build.files[file_path] # FileOf(content)
    /\ build' = [build EXCEPT !.files[file_path] = FileOf(content)]
    /\ last' = [NoCall EXCEPT !.op = "write", !.key = file_path]
    /\ UNCHANGED build_abs
    /\ BuildFrame

BuildCallable == nops < MaxBuildOps

BuildNext ==
    \/ BuildCallable /\ \E q \in BuildRequests, r \in Results : CacheBuildResult(q, r)
    \/ BuildCallable /\ \E q \in BuildRequests : GetCachedBuildResult(q)
    \/ BuildCallable /\ \E q \in BuildRequests : NeedsRebuild(q)
    \/ BuildCallable /\ \E s \in Strategies : SetCacheStrategy(s)
    \/ BuildCallable /\ CleanAllCache
    \/ BuildCallable /\ \E f \in DepNames, c \in {Hello, World} : WriteFile(f, c)

SpecBuild == InitBuild /\ [][BuildNext]_vars

-----------------------------------------------------------------------------
(* CompilationCache as an object of its own: the entries with their        *)
(* timestamps, the two counters, and incremental_cache.dat in cache_dir_   *)

\* CompilationCache(cache_dir)
NewCompilationCache ==
    [cache_ |-> EmptyMap, hits_ |-> 0, misses_ |-> 0,
     file |-> [exists |-> FALSE, text |-> <<>>]]

cc_has(c, unit_id) == unit_id \in DOMAIN c.cache_

\* get were it to count nothing when the unit is not stored
cc_get_hits_only(c, unit_id) ==
    IF unit_id \in DOMAIN c.cache_
    THEN [c |-> [c EXCEPT !.hits_ = @ + 1], ret |-> c.cache_[unit_id].output]
    ELSE [c |-> c, ret |-> <<>>]

cc_get(c, unit_id) ==
    IF unit_id \in DOMAIN c.cache_
    THEN [c |-> [c EXCEPT !.hits_ = @ + 1], ret |-> c.cache_[unit_id].output]
    ELSE [c |-> [c EXCEPT !.misses_ = @ + 1], ret |-> <<>>]

\* put; now is what current_timestamp() returns
cc_put(c, unit_id, output, content_hash, now) ==
    [c EXCEPT !.cache_ = Put(@, unit_id, [output |-> output, content_hash |-> content_hash,
                                          timestamp |-> now])]

cc_invalidate(c, unit_id) == [c EXCEPT !.cache_ = Drop(@, unit_id)]

cc_invalidate_all(c) == [c EXCEPT !.cache_ = EmptyMap]

cc_is_valid(c, unit_id, current_hash) ==
    unit_id \in DOMAIN c.cache_ /\ c.cache_[unit_id].content_hash = current_hash

\* what save writes for one entry: no newline after the output
EntryText(unit_id, e) ==
    unit_id \o <<Newline>> \o e.content_hash \o <<Newline>> \o
    Decimal(e.timestamp) \o <<Newline>> \o Decimal(Len(e.output)) \o <<Newline>> \o
    e.output

RECURSIVE EntriesText(_, _)
EntriesText(entries, order) ==
    IF order = <<>> THEN <<>>
    ELSE EntryText(Head(order), entries[Head(order)]) \o EntriesText(entries, Tail(order))

\* save, the entries taken in the order the unordered_map yields them
cc_save(c, order) ==
    [c EXCEPT !.file = [exists |-> TRUE,
                        text |-> Decimal(Cardinality(DOMAIN c.cache_)) \o <<Newline>> \o
                                 EntriesText(c.cache_, order)]]

\* file.read(&output[0], n): n characters, or those left
ReadChars(st, n) ==
    IF ~st.good THEN [str |-> <<>>, st |-> st]
    ELSE IF st.pos + n - 1 <= Len(st.text)
    THEN [str |-> SubSeq(st.text, st.pos, st.pos + n - 1), st |-> [st EXCEPT !.pos = @ + n]]
    ELSE [str |-> SubSeq(st.text, st.pos, Len(st.text)),
          st  |-> [st EXCEPT !.pos = Len(st.text) + 1, !.good = FALSE]]

\* the loop of load: each entry read is assigned to cache_[unit_id]
RECURSIVE ReadEntries(_, _, _)
ReadEntries(st, n, entries) ==
    IF n = 0 THEN entries
    ELSE LET unit_id      == GetLine(st, Newline)
             content_hash == GetLine(unit_id.st, Newline)
             timestamp    == ReadInt(content_hash.st)
             output_size  == ReadInt(timestamp.st)
             output       == ReadChars(Ignore(output_size.st), output_size.val)
         IN  ReadEntries(output.st, n - 1,
                         Put(entries, unit_id.str,
                             [output |-> output.str, content_hash |-> content_hash.str,
                              timestamp |-> timestamp.val]))

\* load: nothing without the file; the entries read are laid over cache_
cc_load(c) ==
    IF ~c.file.exists THEN c
    ELSE LET count == ReadInt(IStream(c.file.text))
         IN  [c EXCEPT !.cache_ = ReadEntries(Ignore(count.st), count.val, @)]

-----------------------------------------------------------------------------
(* One CompilationCache and its callers *)

CompIds == {<<"a">>, <<"b">>}
CompOutputs == {<<>>, <<"7", Newline, "o">>}
CompHashes == {<<"h">>, <<"k">>}

InitComp ==
    /\ EngineInit
    /\ DiffIdle
    /\ lru = <<>>
    /\ lru_abs = <<>>
    /\ LfuIdle
    /\ build = <<>>
    /\ build_abs = <<>>
    /\ cc = NewCompilationCache
    /\ cc_abs = [gets |-> 0, saved |-> EmptyMap, now |-> 1]
    /\ shared = <<>>
    /\ mutex_ = "free"
    /\ threads = <<>>
    /\ serial = <<>>

CompFrame ==
    /\ nops' = nops + 1
    /\ UNCHANGED <<engineState, diffVars, lruVars, lfuVars, buildVars, threadVars>>

\* the cache and the counters a call found
CompBefore == [cache_ |-> cc.cache_, hits_ |-> cc.hits_, misses_ |-> cc.misses_]

CompHas(unit_id) ==
    /\ last' = [NoCall EXCEPT !.op = "has", !.key = unit_id, !.ret = cc_has(cc, unit_id),
                              !.before = CompBefore]
    /\ UNCHANGED <<cc, cc_abs>>
    /\ CompFrame

CompGet(unit_id) ==
    /\ \E r \in {cc_get(cc, unit_id)} :
           /\ cc' = r.c
           /\ last' = [NoCall EXCEPT !.op = "get", !.key = unit_id, !.ret = r.ret,
                                     !.before = CompBefore]
    /\ cc_abs' = [cc_abs EXCEPT !.gets = @ + 1]
    /\ CompFrame

CompPut(unit_id, output, content_hash) ==
    /\ cc' = cc_put(cc, unit_id, output, content_hash, cc_abs.now)
    /\ last' = [NoCall EXCEPT !.op = "put", !.key = unit_id, !.before = CompBefore]
    /\ cc_abs' = [cc_abs EXCEPT !.now = @ + 1]
    /\ CompFrame

CompInvalidate(unit_id) ==
    /\ cc' = cc_invalidate(cc, unit_id)
    /\ last' = [NoCall EXCEPT !.op = "invalidate", !.key = unit_id, !.before = CompBefore]
    /\ UNCHANGED cc_abs
    /\ CompFrame

CompInvalidateAll ==
    /\ cc' = cc_invalidate_all(cc)
    /\ last' = [NoCall EXCEPT !.op = "invalidate_all", !.before = CompBefore]
    /\ UNCHANGED cc_abs
    /\ CompFrame

CompIsValid(unit_id, current_hash) ==
    /\ last' = [NoCall EXCEPT !.op = "is_valid", !.key = unit_id, !.value = current_hash,
                              !.ret = cc_is_valid(cc, unit_id, current_hash),
                              !.before = CompBefore]
    /\ UNCHANGED <<cc, cc_abs>>
    /\ CompFrame

CompSave ==
    /\ \E order \in Perms(DOMAIN cc.cache_) : cc' = cc_save(cc, order)
    /\ last' = [NoCall EXCEPT !.op = "save", !.before = CompBefore]
    /\ cc_abs' = [cc_abs EXCEPT !.saved = cc.cache_]
    /\ CompFrame

CompLoad ==
    /\ cc' = cc_load(cc)
    /\ last' = [NoCall EXCEPT !.op = "load", !.before = CompBefore,
                              !.first = cc.file.exists]
    /\ UNCHANGED cc_abs
    /\ CompFrame

CompCallable == nops < MaxCompOps

CompNext ==
    \/ CompCallable /\ \E id \in CompIds : CompHas(id)
    \/ CompCallable /\ \E id \in CompIds : CompGet(id)
    \/ CompCallable /\ \E id \in CompIds, o \in CompOutputs, h \in CompHashes : CompPut(id, o, h)
    \/ CompCallable /\ \E id \in CompIds : CompInvalidate(id)
    \/ CompCallable /\ CompInvalidateAll
    \/ CompCallable /\ \E id \in CompIds, h \in CompHashes : CompIsValid(id, h)
    \/ CompCallable /\ CompSave
    \/ CompCallable /\ CompLoad

SpecComp == InitComp /\ [][CompNext]_vars

-----------------------------------------------------------------------------
(* Several threads on one LRUCache, LFUCache or BuildCache.  Every public  *)
(* function but max_size() opens with std::lock_guard<std::mutex> on the   *)
(* object's mutex_ and releases it on return.  A call waits for the mutex, *)
(* reads the object, writes it, and returns.                               *)

ThreadIds == {"t1", "t2"}

\* std::lock_guard<std::mutex> lock(mutex_): entered only once the mutex is
\* free, and then held by t
lock_guard(mutex, t) ==
    IF mutex = "free" THEN [entered |-> TRUE, mutex |-> t]
    ELSE [entered |-> FALSE, mutex |-> mutex]

Call(op, key, value) == [op |-> op, key |-> key, value |-> value]

ThreadKeys == {"a", "b"}

RequestZY == Request(<<Ch("t")>>, <<Ch("cc")>>, <<DepZ, DepY>>)
RequestYZ == Request(<<Ch("t")>>, <<Ch("cc")>>, <<DepY, DepZ>>)

\* the calls threads make on an object of each kind
CallsOn(kind) ==
    IF kind = "build"
    THEN {Call("cache_build_result", q, r) : q \in {RequestZY, RequestYZ}, r \in Results}
         \cup {Call(op, q, "-") : op \in {"get_cached_build_result", "needs_rebuild"},
                                  q \in {RequestZY, RequestYZ}}
         \cup {Call("set_cache_strategy", s, "-") : s \in {"lru", "lfu"}}
         \cup {Call("clean_all_cache", "-", "-")}
    ELSE {Call("put", k, v) : k \in ThreadKeys, v \in CacheValues}
         \cup {Call(op, k, "-") : op \in {"get", "remove", "contains"}, k \in ThreadKeys}
         \cup {Call("size", "-", "-"), Call("clear", "-", "-")}
         \cup {Call("set_max_size", n, "-") : n \in 0..MaxCapacity}

Done(c) == {[c |-> c, ret |-> "-"]}

\* the body of a call under the guard: the objects it may leave and what
\* it returns
LruApply(c, call) ==
    CASE call.op = "put"          -> lru_put(c, call.key, call.value)
      [] call.op = "get"          -> {lru_get(c, call.key)}
      [] call.op = "remove"       -> {lru_remove(c, call.key)}
      [] call.op = "contains"     -> {[c |-> c, ret |-> lru_contains(c, call.key)]}
      [] call.op = "size"         -> {[c |-> c, ret |-> lru_size(c)]}
      [] call.op = "clear"        -> Done(lru_clear(c))
      [] call.op = "set_max_size" -> Done(lru_set_max_size(c, call.key))

LfuApply(c, call) ==
    CASE call.op = "put"          ->
            {[c |-> r.c, ret |-> r.ret] : r \in lfu_put(c, call.key, call.value)}
      [] call.op = "get"          -> {lfu_get(c, call.key)}
      [] call.op = "remove"       -> {lfu_remove(c, call.key)}
      [] call.op = "contains"     -> {[c |-> c, ret |-> call.key \in DOMAIN c.cache_]}
      [] call.op = "size"         -> {[c |-> c, ret |-> lfu_size(c)]}
      [] call.op = "clear"        -> Done(lfu_clear(c))
      [] call.op = "set_max_size" -> Done(lfu_set_max_size(c, call.key).c)

BuildApply(b, call) ==
    CASE call.op = "cache_build_result" ->
            {[c |-> r.b, ret |-> r.ret] :
                r \in cache_build_result(b, call.key.target, call.key.command,
                                         call.key.dependencies, call.value)}
      [] call.op = "get_cached_build_result" ->
            LET r == get_cached_build_result(b, call.key.target, call.key.command,
                                             call.key.dependencies)
            IN  {[c |-> r.b, ret |-> r.ret]}
      [] call.op = "needs_rebuild" ->
            LET r == needs_rebuild(b, call.key.target, call.key.command,
                                   call.key.dependencies)
            IN  {[c |-> r.b, ret |-> r.ret]}
      [] call.op = "set_cache_strategy" -> Done(set_cache_strategy(b, call.key))
      [] call.op = "clean_all_cache"    -> Done(clean_all_cache(b))

Apply(kind, c, call) ==
    CASE kind = "lru"   -> LruApply(c, call)
      [] kind = "lfu"   -> LfuApply(c, call)
      [] kind = "build" -> BuildApply(c, call)

\* the process has died in a call
Crashed(o) == IF o.kind = "build" THEN o.c.cache_.crashed ELSE o.c.crashed

IdleThread == [pc |-> "idle", call |-> Call("-", "-", "-"), seen |-> <<>>, ret |-> "-"]

InitThreads ==
    /\ EngineInit
    /\ DiffIdle
    /\ lru = <<>>
    /\ lru_abs = <<>>
    /\ LfuIdle
    /\ build = <<>>
    /\ build_abs = <<>>
    /\ cc = <<>>
    /\ cc_abs = <<>>
    /\ \E o \in {[kind |-> "lru", c |-> NewLRU(n)] : n \in 0..MaxCapacity}
               \cup {[kind |-> "lfu", c |-> NewLFU(n)] : n \in 0..MaxCapacity}
               \cup {[kind |-> "build",
                      c |-> NewBuildCache(n, [f \in DepNames |-> FileOf(Hello)])] :
                        n \in 1..MaxCapacity} :
           /\ shared = o
           /\ serial = [c |-> o.c, ok |-> TRUE]
    /\ mutex_ = "free"
    /\ threads = [t \in ThreadIds |-> IdleThread]

ThreadFrame == UNCHANGED <<engineState, diffVars, lruVars, lfuVars, buildVars, ccVars>>

\* a thread calls a function of the object and reaches the guard
Invoke(t, call) ==
    /\ threads[t].pc = "idle"
    /\ nops < MaxThreadCalls
    /\ threads' = [threads EXCEPT ![t] = [IdleThread EXCEPT !.pc = "waiting", !.call = call]]
    /\ nops' = nops + 1
    /\ UNCHANGED <<shared, mutex_, serial, last>>
    /\ ThreadFrame

\* the guard lets the thread in, and the thread reads the object
Enter(t) ==
    /\ threads[t].pc = "waiting"
    /\ \E g \in {lock_guard(mutex_, t)} :
           /\ g.entered
           /\ mutex_' = g.mutex
    /\ threads' = [threads EXCEPT ![t].pc = "entered", ![t].seen = shared.c]
    /\ UNCHANGED <<shared, serial, last, nops>>
    /\ ThreadFrame

\* the thread writes the object as the call leaves what it has read; done
\* one at a time the call would have acted on what the calls before left
Write(t) ==
    /\ threads[t].pc = "entered"
    /\ \E r \in Apply(shared.kind, threads[t].seen, threads[t].call) :
           /\ shared' = [shared EXCEPT !.c = r.c]
           /\ threads' = [threads EXCEPT ![t].pc = "written", ![t].ret = r.ret]
           /\ serial' = IF serial.ok /\ threads[t].seen = serial.c
                         THEN [c |-> r.c, ok |-> TRUE]
                         ELSE [serial EXCEPT !.ok = FALSE]
    /\ UNCHANGED <<mutex_, last, nops>>
    /\ ThreadFrame

\* the call returns and the guard releases the mutex
Return(t) ==
    /\ threads[t].pc = "written"
    /\ mutex_' = IF mutex_ = t THEN "free" ELSE mutex_
    /\ threads' = [threads EXCEPT ![t] = IdleThread]
    /\ last' = [NoCall EXCEPT !.op = threads[t].call.op, !.key = threads[t].call.key,
                              !.ret = threads[t].ret, !.id = t]
    /\ UNCHANGED <<shared, serial, nops>>
    /\ ThreadFrame

Running == ~Crashed(shared)

ThreadsNext ==
    \/ Running /\ \E t \in ThreadIds, call \in CallsOn(shared.kind) : Invoke(t, call)
    \/ Running /\ \E t \in ThreadIds : Enter(t)
    \/ Running /\ \E t \in ThreadIds : Write(t)
    \/ Running /\ \E t \in ThreadIds : Return(t)

SpecThreads == InitThreads /\ [][ThreadsNext]_vars

-----------------------------------------------------------------------------
(* The vocabulary of the properties *)

\* the units the file index of f lists and the unit map holds
IndexedUnits(f) == {id \in DOMAIN units_ : id \in Range(file_units_[f])}

CombinedOutput(f) == get_combined_output(Manager, cache_, f)

\* the last call was an update_source that took the diff path
DiffUpdated == last.op = "update_source" /\ ~last.first

\* the units of the updated file whose line range contains a changed line
OnChangedLine ==
    {id \in IndexedUnits(last.file) :
        \E i \in DOMAIN last.lines :
            units_[id].start_line <= last.lines[i] /\ last.lines[i] <= units_[id].end_line}

\* everything reachable from S along dependents edges, S included
RECURSIVE DependentsClosure(_)
DependentsClosure(S) ==
    LET T == S \cup UNION {Range(units_[x].dependents) : x \in S \cap DOMAIN units_}
    IN  IF T = S THEN S ELSE DependentsClosure(T)

Reported(id, type) ==
    \E i \in DOMAIN changes : changes[i].unit_id = id /\ changes[i].change_type = type

\* the Function and Class units of the updated file that enclose unit id
Containers(id) ==
    {p \in IndexedUnits(last.file) :
        /\ p # id
        /\ units_[p].type \in Structural
        /\ units_[p].start_line <= units_[id].start_line
        /\ units_[p].end_line >= units_[id].end_line}

\* the non-structural units in the affected set of the last update
AffectedInner ==
    {id \in Range(units_to_compile_) \cap DOMAIN units_ : units_[id].type \notin Structural}

ContainersQueued ==
    \A id \in AffectedInner : \A p \in Containers(id) :
        /\ p \in Range(units_to_compile_)
        /\ Reported(p, "AFFECTED")
        /\ ~units_[p].cache_valid

\* fragments joined with one "\n" between consecutive ones
RECURSIVE JoinFragments(_)
JoinFragments(frags) ==
    IF frags = <<>> THEN <<>>
    ELSE IF Len(frags) = 1 THEN frags[1]
    ELSE frags[1] \o <<"\n">> \o JoinFragments(Tail(frags))

\* the per-unit outputs of a file in ascending start_line order
FragmentsOf(f) ==
    LET ids == get_units_by_file(Manager, f)
    IN  [i \in 1..Len(ids) |-> UnitOutput(units_, cache_, ids[i])]

\* t occurs in s as a contiguous piece
Contains(s, t) ==
    \E i \in 0..(Len(s) - Len(t)) : SubSeq(s, i + 1, i + Len(t)) = t

-----------------------------------------------------------------------------
(* Properties of the engine under Spec *)

C4_CacheFollowsHash ==
    /\ (last.op = "mark_compiled" /\ last.out # <<>> /\ last.id \in DOMAIN units_)
          => Contains(CombinedOutput(units_[last.id].file_path), last.out)
    /\ \A id \in DOMAIN units_ :
          units_[id].cache_valid =>
              /\ cache_is_valid(cache_, id, units_[id].content_hash)
              /\ cache_get(cache_, id) = units_[id].cached_output

\* C5: an update_source that repeats the call before it, same file and same
\* content, leaves the work list empty and the combined output as it was.
C5_IdenticalContent ==
    [][(last'.op = "update_source" /\ last'.repeat) =>
          /\ units_to_compile_' = <<>>
          /\ get_combined_output([units |-> units_', file_units |-> file_units_'],
                                 cache_', last'.file)
                = CombinedOutput(last'.file)]_vars

\* the same content twice for a file that has compiled output
C5_Witness ==
    /\ last.op = "update_source"
    /\ last.repeat
    /\ CombinedOutput(last.file) # <<>>

\* C6: update_source of a file without a snapshot sets every unit indexed
\* under the file to Added, appends their ids to the work list, returns one
\* Added record per unit of the file and no other, and installs a snapshot.
C6_FirstUpdate ==
    [][(last'.op = "update_source" /\ last'.first) =>
          LET f == last'.file
              ids == IndexedUnits(f)
              n == Cardinality(ids)
          IN  /\ \A id \in ids : units_'[id].state = "ADDED"
              /\ Len(units_to_compile_') = Len(units_to_compile_) + n
              /\ SubSeq(units_to_compile_', 1, Len(units_to_compile_)) = units_to_compile_
              /\ {units_to_compile_'[i] :
                     i \in (Len(units_to_compile_) + 1)..Len(units_to_compile_')} = ids
              /\ Len(changes') = n
              /\ {changes'[i].unit_id : i \in DOMAIN changes'} = ids
              /\ \A i \in DOMAIN changes' : changes'[i].change_type = "ADDED"
              /\ f \notin DOMAIN snapshots_
              /\ f \in DOMAIN snapshots_']_vars

\* the first update of a file with several units while another file's
\* units are still waiting to be compiled
C6_Witness ==
    /\ last.op = "update_source"
    /\ last.first
    /\ Cardinality(IndexedUnits(last.file)) >= 2
    /\ \E id \in Range(units_to_compile_) \cap DOMAIN units_ :
          units_[id].file_path # last.file

\* C7: mark_compiled(unit_id, output) on a stored unit sets its cached_output,
\* cache_valid and state, stores a cache entry valid for its content_hash
\* and removes the id from the work list; on an unknown id it only removes
\* the id from the work list.  Nothing else changes.
C7_MarkCompiledFrame ==
    [][last'.op = "mark_compiled" =>
          LET id == last'.id
          IN  /\ IF id \in DOMAIN units_
                 THEN /\ DOMAIN units_' = DOMAIN units_
                      /\ units_'[id] = [units_[id] EXCEPT !.cached_output = last'.out,
                                                          !.cache_valid = TRUE,
                                                          !.state = "UNCHANGED"]
                      /\ \A x \in DOMAIN units_ \ {id} : units_'[x] = units_[x]
                      /\ cache_is_valid(cache_', id, units_'[id].content_hash)
                      /\ cache_get(cache_', id) = last'.out
                      /\ DOMAIN cache_' = DOMAIN cache_ \cup {id}
                      /\ \A x \in DOMAIN cache_ \ {id} : cache_'[x] = cache_[x]
                 ELSE units_' = units_ /\ cache_' = cache_
              /\ id \notin Range(units_to_compile_')
              /\ units_to_compile_' = SelectSeq(units_to_compile_, LAMBDA x : x # id)
              /\ file_units_' = file_units_
              /\ snapshots_' = snapshots_]_vars

\* a stored unit was compiled while others were still waiting
C7_Witness ==
    /\ last.op = "mark_compiled"
    /\ last.id \in DOMAIN units_
    /\ units_[last.id].cache_valid
    /\ units_[last.id].cached_output = last.out
    /\ units_to_compile_ # <<>>

\* C8: the combined output of a file is its non-empty per-unit outputs in
\* ascending start_line order with exactly one "\n" between consecutive ones.
C8_SingleSeparators ==
    \A f \in Files :
        CombinedOutput(f) = JoinFragments(SelectSeq(FragmentsOf(f), LAMBDA o : o # <<>>))

-----------------------------------------------------------------------------
(* Properties of the engine under SpecRounds *)

\* the caller has registered the file, updated it and compiled, with
\* non-empty outputs, every unit the work list named
RoundComplete == cycle.stage = "updated" /\ units_to_compile_ = <<>>

\* C1: once a round is complete, on the first update of the file or on a
\* later one that follows a re-registration, every unit of the file has an
\* output fragment and the combined output is these fragments in ascending
\* start_line order.
C1_FullOutputAfterRound ==
    RoundComplete =>
        /\ \A i \in DOMAIN FragmentsOf(cycle.file) : FragmentsOf(cycle.file)[i] # <<>>
        /\ CombinedOutput(cycle.file) = JoinFragments(FragmentsOf(cycle.file))

\* C2: after an update_source on the diff path, every unit of the file on a
\* changed line and every stored unit reachable from one through dependents
\* edges is in the work list with cache_valid false.
C2_AffectedPropagation ==
    DiffUpdated =>
        \A id \in DependentsClosure(OnChangedLine) \cap DOMAIN units_ :
            /\ id \in Range(units_to_compile_)
            /\ ~units_[id].cache_valid

\* a chain u1 <- u2 <- u3 whose units had all been compiled: u1 is on the
\* changed line, u3 is not and is reached only through u2
C2_Witness ==
    /\ DiffUpdated
    /\ \E u1 \in OnChangedLine : \E u2, u3 \in DOMAIN units_ \ OnChangedLine :
          /\ u2 # u3
          /\ u2 \in Range(units_[u1].dependents)
          /\ u3 \in Range(units_[u2].dependents)
          /\ u3 \notin Range(units_[u1].dependents)
          /\ \A u \in {u1, u2, u3} : units_[u].cached_output # <<>>
          /\ units_[u3].type \notin Structural

-----------------------------------------------------------------------------
(* Properties of the change detector under SpecDiff *)

\* the positions at which the two sequences differ
Differing == {p \in DOMAIN new_lines : old_lines[p] # new_lines[p]}

\* C10: when the new sequence is the old one with the line at one position
\* p replaced by a line of another hash, get_changed_lines returns <<p>>.
C10_DiffLocalization ==
    (dpc = "out" /\ Len(old_lines) = Len(new_lines) /\ Cardinality(Differing) = 1)
        => changed = <<CHOOSE p \in Differing : TRUE>>

\* the replacement equals a line next to it
C10_Witness ==
    /\ dpc = "out"
    /\ Len(old_lines) = MaxDiffLen
    /\ Len(new_lines) = MaxDiffLen
    /\ Differing = {2}
    /\ new_lines[2] = new_lines[1]
    /\ changed = <<2>>

\* C11: get_changed_lines of a snapshot against itself is empty.
C11_DiffIdempotence ==
    (dpc = "out" /\ old_lines = new_lines) => changed = <<>>

\* a snapshot of full length in which a line occurs twice
C11_Witness ==
    /\ dpc = "out"
    /\ old_lines = new_lines
    /\ Len(new_lines) = MaxDiffLen
    /\ \E i, j \in DOMAIN new_lines : i # j /\ new_lines[i] = new_lines[j]
    /\ changed = <<>>

\* the new sequence is the old one with one line, of a hash the old one
\* does not hold, inserted at position p
InsertedAt(p) ==
    /\ Len(new_lines) = Len(old_lines) + 1
    /\ p \in DOMAIN new_lines
    /\ new_lines[p] \notin Range(old_lines)
    /\ \A i \in DOMAIN old_lines :
          old_lines[i] = new_lines[IF i < p THEN i ELSE i + 1]

\* C12: after such an insertion get_changed_lines returns <<p>> and
\* compute_lcs pairs every old line i with new line i before p and with new
\* line i + 1 from p on (0-based in the pairs).
C12_SingleInsertion ==
    dpc = "out" =>
        \A p \in DOMAIN new_lines :
            InsertedAt(p) =>
                /\ changed = <<p>>
                /\ lcs = [i \in DOMAIN old_lines |->
                             <<i - 1, IF i < p THEN i - 1 ELSE i>>]

\* a,b,c -> a,NEW,b,c
C12_Witness ==
    /\ dpc = "out"
    /\ Len(old_lines) = 3
    /\ InsertedAt(2)
    /\ changed = <<2>>
    /\ lcs = <<<<0, 0>>, <<1, 2>>, <<2, 3>>>>

\* the subsequence of s at the positions I
PickAt(s, I) ==
    [k \in 1..Cardinality(I) |->
        s[CHOOSE i \in I : Cardinality({j \in I : j < i}) = k - 1]]

\* the length of a longest common subsequence, by trying every one
LongestCommon(s, t) ==
    LET common == {PickAt(s, I) : I \in SUBSET DOMAIN s}
                      \cap {PickAt(t, J) : J \in SUBSET DOMAIN t}
    IN  CHOOSE n \in 0..Len(s) :
            /\ \E c \in common : Len(c) = n
            /\ \A c \in common : Len(c) <= n

\* C13: the pairs compute_lcs returns increase strictly in both coordinates,
\* pair equal lines, and are as many as a longest common subsequence is long.
C13_LongestCommonSubsequence ==
    dpc = "out" =>
        /\ \A k \in DOMAIN lcs :
              /\ lcs[k][1] \in 0..(Len(old_lines) - 1)
              /\ lcs[k][2] \in 0..(Len(new_lines) - 1)
              /\ old_lines[lcs[k][1] + 1] = new_lines[lcs[k][2] + 1]
        /\ \A k \in DOMAIN lcs : \A l \in DOMAIN lcs :
              k < l => lcs[k][1] < lcs[l][1] /\ lcs[k][2] < lcs[l][2]
        /\ Len(lcs) = LongestCommon(old_lines, new_lines)

\* two full-length sequences with a common subsequence that is neither empty
\* nor a prefix or suffix alignment: lines are skipped on both sides
C13_Witness ==
    /\ dpc = "out"
    /\ Len(old_lines) = MaxDiffLen
    /\ Len(new_lines) = MaxDiffLen
    /\ Len(lcs) = 2
    /\ lcs[1][1] # lcs[1][2]
    /\ lcs[2][1] - lcs[1][1] # lcs[2][2] - lcs[1][2]

-----------------------------------------------------------------------------
(* The affected closure *)

\* the ids one dependents edge away from the ids of S
DependentsOf(S) == UNION {Range(units_[x].dependents) : x \in S \cap DOMAIN units_}

\* the ids reachable from x along one or more dependents edges
ReachableFrom(x) == DependentsClosure(DependentsOf({x}))

\* C15: get_affected_units(x) returns, each id once, exactly the ids
\* reachable from x along one or more dependents edges, x itself left out.
C15_AffectedClosure ==
    last.op = "get_affected_units" =>
        /\ Range(last.result) = ReachableFrom(last.id) \ {last.id}
        /\ Cardinality(Range(last.result)) = Len(last.result)

\* a query whose answer holds an id two edges away that is not a direct
\* dependent, in a graph where the seed is reachable from itself
C15_Witness ==
    /\ last.op = "get_affected_units"
    /\ last.id \in ReachableFrom(last.id)
    /\ Len(last.result) = 2
    /\ \E y \in Range(last.result) : y \notin DependentsOf({last.id})

\* the ids on a dependency cycle through x: those that reach x and that x
\* reaches, x among them when it lies on a cycle
OnCycleWith(x) == {y \in ReachableFrom(x) : x \in DependentsClosure({y})}

\* C16 as stated: for a seed on a dependency cycle the affected set holds
\* every node of the cycle.
C16_EveryCycleNode ==
    last.op = "get_affected_units" => OnCycleWith(last.id) \subseteq Range(last.result)

\* C16: get_affected_units returns on every graph, cyclic or with self-edges,
\* a finite set that holds every node of a cycle through the seed other than
\* the seed, which it leaves out.
C16_CycleNodesButSeed ==
    last.op = "get_affected_units" =>
        /\ IsFiniteSet(Range(last.result))
        /\ OnCycleWith(last.id) \ {last.id} \subseteq Range(last.result)
        /\ last.id \notin Range(last.result)

\* the seed lies on a cycle through all three units and has a self-edge
C16_Witness ==
    /\ last.op = "get_affected_units"
    /\ OnCycleWith(last.id) = GraphIds
    /\ last.id \in DependentsOf({last.id})
    /\ \E y \in GraphIds \ {last.id} : y \notin DependentsOf({last.id})
    /\ Range(last.result) = GraphIds \ {last.id}

-----------------------------------------------------------------------------
(* The dependency edges of the unit manager *)

\* how often id occurs in the list s
Count(s, id) == Cardinality({i \in DOMAIN s : s[i] = id})

\* C17: in every state reached by add_unit, remove_unit, add_dependency,
\* remove_dependency and register_units from the empty manager, for all
\* stored units x and y, x is in y.dependencies iff y is in x.dependents.
C17_EdgeSymmetry ==
    \A x, y \in DOMAIN units_ :
        x \in Range(units_[y].dependencies) <=> y \in Range(units_[x].dependents)

\* C18: add_dependency(a, b) with both units stored leaves b in
\* a.dependencies and a in b.dependents, each once, and nothing else changed;
\* the same call made again changes nothing; with a or b not stored the call
\* changes nothing.
C18_AddDependency ==
    [][last'.op = "add_dependency" =>
        LET a == last'.id
            b == last'.to
        IN  /\ file_units_' = file_units_
            /\ IF a \in DOMAIN units_ /\ b \in DOMAIN units_
               THEN /\ DOMAIN units_' = DOMAIN units_
                    /\ Count(units_'[a].dependencies, b) = 1
                    /\ Count(units_'[b].dependents, a) = 1
                    /\ \A x \in DOMAIN units_ :
                          /\ Remove(units_'[x].dependencies, b) = Remove(units_[x].dependencies, b)
                          /\ Remove(units_'[x].dependents, a) = Remove(units_[x].dependents, a)
                          /\ x # a => units_'[x].dependencies = units_[x].dependencies
                          /\ x # b => units_'[x].dependents = units_[x].dependents
                    /\ (last.op = "add_dependency" /\ last.id = a /\ last.to = b)
                          => units_' = units_
               ELSE units_' = units_]_vars

\* add_dependency(a, b) made twice in a row on stored units, a other than b,
\* and the edge is held once on either side
C18_Witness ==
    /\ last.op = "add_dependency"
    /\ last.id # last.to
    /\ {last.id, last.to} \subseteq DOMAIN units_
    /\ last.repeat
    /\ Count(units_[last.id].dependencies, last.to) = 1
    /\ Count(units_[last.to].dependents, last.id) = 1
    /\ EdgeCount = 1

\* C19: after remove_unit(id) the unit is absent, no file index lists id, and
\* no remaining unit holds id in its dependencies or in its dependents.
C19_RemoveScrubsBothSides ==
    last.op = "remove_unit" =>
        /\ last.id \notin DOMAIN units_
        /\ \A f \in Files : last.id \notin Range(file_units_[f])
        /\ \A x \in DOMAIN units_ :
              /\ last.id \notin Range(units_[x].dependencies)
              /\ last.id \notin Range(units_[x].dependents)

-----------------------------------------------------------------------------
(* detect_changes *)

\* the records of the result that name id
RecordsOf(id) == {i \in DOMAIN records : records[i].unit_id = id}

\* C14: detect_changes returns one record per id only in old_snap.units
\* (Deleted, old line range), one per id only in new_snap.units (Added, new
\* line range), one per id in both with differing content_hash (Modified,
\* both ranges) and none for an id in both with equal content_hash.
C14_DetectChanges ==
    dpc = "units out" =>
        /\ \A i \in DOMAIN records : records[i].unit_id \in DOMAIN old_units \cup DOMAIN new_units
        /\ \A id \in DOMAIN old_units \ DOMAIN new_units :
              /\ Cardinality(RecordsOf(id)) = 1
              /\ \A i \in RecordsOf(id) :
                    /\ records[i].change_type = "DELETED"
                    /\ records[i].old_start_line = old_units[id].start_line
                    /\ records[i].old_end_line = old_units[id].end_line
        /\ \A id \in DOMAIN new_units \ DOMAIN old_units :
              /\ Cardinality(RecordsOf(id)) = 1
              /\ \A i \in RecordsOf(id) :
                    /\ records[i].change_type = "ADDED"
                    /\ records[i].new_start_line = new_units[id].start_line
                    /\ records[i].new_end_line = new_units[id].end_line
        /\ \A id \in DOMAIN old_units \cap DOMAIN new_units :
              IF old_units[id].content_hash # new_units[id].content_hash
              THEN /\ Cardinality(RecordsOf(id)) = 1
                   /\ \A i \in RecordsOf(id) :
                         /\ records[i].change_type = "MODIFIED"
                         /\ records[i].old_start_line = old_units[id].start_line
                         /\ records[i].old_end_line = old_units[id].end_line
                         /\ records[i].new_start_line = new_units[id].start_line
                         /\ records[i].new_end_line = new_units[id].end_line
              ELSE RecordsOf(id) = {}

\* three ids: one deleted or added, one modified with its lines moved, one
\* in both snapshots with equal content_hash and moved lines
C14_Witness ==
    /\ dpc = "units out"
    /\ Len(records) = 2
    /\ \E i, j \in DOMAIN records :
          /\ records[i].change_type = "MODIFIED"
          /\ records[i].old_start_line # records[i].new_start_line
          /\ records[j].change_type \in {"DELETED", "ADDED"}
    /\ \E id \in DOMAIN old_units \cap DOMAIN new_units :
          /\ old_units[id].content_hash = new_units[id].content_hash
          /\ old_units[id].start_line # new_units[id].start_line
          /\ RecordsOf(id) = {}

-----------------------------------------------------------------------------
(* Serialization *)

\* C20: deserialize(serialize(M)) holds the units of M, each with the same
\* id, file_path, start_line, end_line, type, name, content_hash and
\* dependencies list, and dependents lists that are the reverse of the
\* dependencies.
C20_RoundTrip ==
    last.op = "deserialize" =>
        /\ DOMAIN units_ = DOMAIN last.before
        /\ \A id \in DOMAIN units_ :
              /\ units_[id].id = last.before[id].id
              /\ units_[id].file_path = last.before[id].file_path
              /\ units_[id].start_line = last.before[id].start_line
              /\ units_[id].end_line = last.before[id].end_line
              /\ units_[id].type = last.before[id].type
              /\ units_[id].name = last.before[id].name
              /\ units_[id].content_hash = last.before[id].content_hash
              /\ units_[id].dependencies = last.before[id].dependencies
        /\ \A x, y \in DOMAIN units_ :
              Count(units_[x].dependents, y) = Count(units_[y].dependencies, x)

\* the part of C20 that holds: units with at most one dependency come back
\* as they were
C20_RoundTripOneDependency ==
    (/\ last.op = "deserialize"
     /\ \A id \in DOMAIN last.before : Len(last.before[id].dependencies) <= 1)
        => C20_RoundTrip

-----------------------------------------------------------------------------
(* LRUCache *)

\* the keys of the recency list, most recently used first
LruOrder == [i \in DOMAIN lru.usage_order_ |-> lru.usage_order_[i].key]

\* C21: while the capacity has been at least 1, the LRUCache is the
\* least-recently-used map: it holds the same keys and values (so get
\* returns the latest value put unless the key was evicted or removed, else
\* the empty string), a key just put or found by get is the most recently
\* used, and the recency list runs from the latest use to the oldest, so
\* that the key evicted is the one used longest ago.
C21_LruRefinement ==
    (lru # <<>> /\ lru_abs.ok) =>
        /\ ~lru.crashed
        /\ DOMAIN lru.cache_ = DOMAIN lru_abs.val
        /\ \A k \in DOMAIN lru.cache_ : lru.cache_[k].value = lru_abs.val[k]
        /\ Range(LruOrder) = DOMAIN lru_abs.val
        /\ \A i, j \in DOMAIN LruOrder :
              i < j => lru_abs.stamp[LruOrder[i]] > lru_abs.stamp[LruOrder[j]]
        /\ last.op = "get" =>
              /\ last.ret = AbsGetValue(lru_abs, last.key)
              /\ last.ret # "" => LruOrder[1] = last.key
        /\ last.op = "put" =>
              /\ LruOrder[1] = last.key
              /\ lru.cache_[last.key].value = last.value

\* capacity 2: put a, put b, a used again, put c: b is evicted, a and c stay
C21_Witness ==
    /\ lru # <<>>
    /\ lru_abs.ok
    /\ lru.max_size_ = 2
    /\ nops = 4
    /\ last.op = "put"
    /\ last.key = "c"
    /\ last.evicted = {"b"}
    /\ DOMAIN lru.cache_ = {"a", "c"}

\* C22: size() <= max_size() after every call, for every capacity, 0 and
\* capacities installed by set_max_size included.
C22_CapacityBound ==
    lru # <<>> => (~lru.crashed /\ lru_size(lru) <= lru.max_size_)

\* C23: the recency list holds exactly the keys of the map, each once, and
\* each entry's cursor designates the node of its key.
C23_LruStructure ==
    lru # <<>> =>
        /\ Len(lru.usage_order_) = lru_size(lru)
        /\ Range(LruOrder) = DOMAIN lru.cache_
        /\ \A k \in DOMAIN lru.cache_ :
              \E i \in DOMAIN lru.usage_order_ :
                  /\ lru.usage_order_[i].node = lru.cache_[k].cursor
                  /\ lru.usage_order_[i].key = k

-----------------------------------------------------------------------------
(* LFUCache *)

\* C24: whenever a key is evicted, by put of a new key on a full cache or
\* by set_max_size, the list at min_frequency_ holds a victim and the
\* victim's frequency is the least of all stored keys.
C24_LfuEvictsMinimum ==
    lfu # <<>> =>
        \A i \in DOMAIN last.evictions :
            last.evictions[i].found /\ last.evictions[i].least

\* C25: for every stored key, frequency equals the number of successful
\* calls on it since its insertion: 1 for the inserting put, 1 for each
\* later put and each later get that found it; a get of an absent key
\* counts for nothing.
C25_LfuFrequency ==
    (lfu # <<>> /\ ~lfu.crashed) =>
        /\ DOMAIN lfu_count = DOMAIN lfu.cache_
        /\ \A k \in DOMAIN lfu.cache_ : lfu.cache_[k].frequency = lfu_count[k]

\* after a get of an absent key, two stored keys: one with at least two
\* successful calls after its insertion, the other only inserted
C25_Witness ==
    /\ lfu # <<>>
    /\ ~lfu.crashed
    /\ last.op = "get"
    /\ last.ret = ""
    /\ \E k, x \in DOMAIN lfu.cache_ :
          /\ lfu.cache_[k].frequency >= 3
          /\ lfu.cache_[x].frequency = 1

-----------------------------------------------------------------------------
(* BuildCache *)

\* C26: a lookup returns the result last stored for the same target,
\* command, dependencies in the same order and dependency file contents,
\* if its entry was not evicted, cleared or dropped by a strategy swap; for
\* any other target, command, order or contents, or a file that has
\* appeared, it returns the empty string; and needs_rebuild returns true
\* exactly when the lookup returns the empty string.
C26_KeyStability ==
    /\ last.op = "get_cached_build_result" =>
          LET in == InputOf(build.files, last.key)
          IN  last.ret = IF in \in DOMAIN build_abs.stored
                         THEN build_abs.stored[in].result ELSE ""
    /\ last.op = "needs_rebuild" =>
          last.ret = (get_cached_build_result(build, last.key.target, last.key.command,
                                              last.key.dependencies).ret = "")

\* C27: after set_cache_strategy(s) the policy holds no entry and has the
\* max_size of the old one, it is an LFU policy if s is "lfu" and an LRU
\* policy otherwise, and every lookup returns the empty string until the
\* next cache_build_result.
C27_StrategySwap ==
    /\ last.op = "set_cache_strategy" =>
          /\ build.cache_.cache_ = EmptyMap
          /\ build.cache_.max_size_ = last.before
          /\ build.policy = (IF last.key = "lfu" THEN "lfu" ELSE "lru")
          /\ (build.policy = "lfu") = ("min_frequency_" \in DOMAIN build.cache_)
          /\ (build.policy = "lru") = ("usage_order_" \in DOMAIN build.cache_)
    /\ (last.op = "get_cached_build_result" /\ build_abs.swapped) => last.ret = ""

\* a swap to LFU of a cache of capacity 2 that held one result
C27_Witness ==
    /\ last.op = "set_cache_strategy"
    /\ last.key = "lfu"
    /\ last.value = 1
    /\ last.before = 2
    /\ build.policy = "lfu"

-----------------------------------------------------------------------------
(* CompilationCache *)

\* C28: after load with the file that save wrote, the cache holds exactly
\* the entries saved, with their output, content_hash and timestamp, and
\* none put after the save; after load without a file the cache is as it
\* was.
C28_Persistence ==
    last.op = "load" =>
        IF last.first THEN cc.cache_ = cc_abs.saved ELSE cc.cache_ = last.before.cache_

\* C29: hits_ + misses_ is the number of get calls made; a get adds one to
\* hits_ if the unit is stored and one to misses_ if it is not; has,
\* is_valid, put, invalidate and invalidate_all leave both counters alone;
\* is_valid is true exactly when the unit is stored with that hash.
C29_Accounting ==
    cc # <<>> =>
        /\ cc.hits_ + cc.misses_ = cc_abs.gets
        /\ last.op = "get" =>
              IF last.key \in DOMAIN last.before.cache_
              THEN cc.hits_ = last.before.hits_ + 1 /\ cc.misses_ = last.before.misses_
              ELSE cc.hits_ = last.before.hits_ /\ cc.misses_ = last.before.misses_ + 1
        /\ last.op \in {"has", "is_valid", "put", "invalidate", "invalidate_all"} =>
              cc.hits_ = last.before.hits_ /\ cc.misses_ = last.before.misses_
        /\ last.op = "is_valid" =>
              last.ret = (/\ last.key \in DOMAIN last.before.cache_
                          /\ last.before.cache_[last.key].content_hash = last.value)

\* a hit and a miss counted, then is_valid on a stored unit with another hash
C29_Witness ==
    /\ cc # <<>>
    /\ cc.hits_ >= 1
    /\ cc.misses_ >= 1
    /\ last.op = "is_valid"
    /\ last.key \in DOMAIN cc.cache_
    /\ last.ret = FALSE

-----------------------------------------------------------------------------
(* Threads *)

\* the structure of an LRUCache: the list holds the stored keys, each once,
\* and every cursor designates the node of its key
LruWellFormed(c) ==
    /\ Len(c.usage_order_) = lru_size(c)
    /\ \A k \in DOMAIN c.cache_ :
          \E i \in DOMAIN c.usage_order_ :
              /\ c.usage_order_[i].node = c.cache_[k].cursor
              /\ c.usage_order_[i].key = k

\* the structure of an LFUCache: the lists hold the stored keys, each once
\* and in the list of its frequency, under its cursor
LfuWellFormed(c) ==
    /\ \A f \in DOMAIN c.freq_map_ :
          \A i \in DOMAIN c.freq_map_[f] :
              LET n == c.freq_map_[f][i]
              IN  /\ n.key \in DOMAIN c.cache_
                  /\ c.cache_[n.key].frequency = f
                  /\ c.cache_[n.key].usage_iter = n.node
    /\ \A k \in DOMAIN c.cache_ :
          \E i \in DOMAIN FreqList(c, c.cache_[k].frequency) :
              FreqList(c, c.cache_[k].frequency)[i].key = k

WellFormed(o) ==
    CASE o.kind = "lru"   -> LruWellFormed(o.c)
      [] o.kind = "lfu"   -> LfuWellFormed(o.c)
      [] o.kind = "build" -> IF o.c.policy = "lfu" THEN LfuWellFormed(o.c.cache_)
                             ELSE LruWellFormed(o.c.cache_)

\* the threads inside a guarded call
Inside == {t \in ThreadIds : threads[t].pc \in {"entered", "written"}}

\* C30: at most one thread is inside a call, and it holds the mutex; no
\* call dies; every call acts on the object as the calls before it left
\* it, so results and object are those of the calls done one at a time in
\* the order they entered; and whenever the mutex is free the object is
\* well formed.
C30_Atomicity ==
    shared # <<>> =>
        /\ Cardinality(Inside) <= 1
        /\ \A t \in Inside : mutex_ = t
        /\ ~Crashed(shared)
        /\ serial.ok
        /\ shared.c = serial.c
        /\ mutex_ = "free" => WellFormed(shared)


-----------------------------------------------------------------------------
(* The engine: pending work, states and records *)

Dirty == {"ADDED", "MODIFIED", "AFFECTED"}

\* C31: every stored unit whose state is Added, Modified or Affected is
\* listed in units_to_compile_; update_source drops no pending id that was
\* never passed to mark_compiled.
C31_NoLostRecompilation ==
    \A id \in DOMAIN units_ :
        units_[id].state \in Dirty => id \in Range(units_to_compile_)


\* C32: after an update_source on the diff path every unit of the file
\* whose line range contains a changed line has state Modified and is
\* reported Modified, also when it is a dependent of another changed unit
\* or a Function or Class enclosing an affected unit; every other unit of
\* the work list, reached through dependents edges or through expansion
\* only, has state Affected.
C32_ChangedIsModified ==
    DiffUpdated =>
        /\ \A id \in OnChangedLine :
              units_[id].state = "MODIFIED" /\ Reported(id, "MODIFIED")
        /\ \A id \in (Range(units_to_compile_) \cap DOMAIN units_) \ OnChangedLine :
              units_[id].state = "AFFECTED"


\* C33: after every update_source the ids of the returned records are the
\* ids of units_to_compile_, one record per id, and no id is listed twice.
C33_RecordsMatchWorkList ==
    last.op = "update_source" =>
        /\ {changes[i].unit_id : i \in DOMAIN changes} = Range(units_to_compile_)
        /\ Len(changes) = Cardinality(Range(units_to_compile_))
        /\ Len(units_to_compile_) = Cardinality(Range(units_to_compile_))

-----------------------------------------------------------------------------
(* expand_to_boundaries on its own: a manager holding three units of any    *)
(* type and line range, and any non-empty set of their ids handed over      *)

MaxExpandOps == 2
ExpandIds == {"aF", "aS", "bS"}
ExpandTypes == {"STATEMENT", "FUNCTION", "CLASS"}
ExpandRanges == {<<1, 1>>, <<1, 2>>, <<2, 2>>}

\* a CompilationUnit as a caller fills it in before add_unit
ShapedUnit(id, type, range) ==
    [NewUnit(id) EXCEPT !.type = type, !.start_line = range[1], !.end_line = range[2]]

ExpandInit ==
    /\ \E ta, tb, tc \in ExpandTypes : \E ra, rb, rc \in ExpandRanges :
          \E m \in {AddAll([units |-> EmptyMap, file_units |-> [f \in Files |-> <<>>]],
                           <<ShapedUnit("aF", ta, ra), ShapedUnit("aS", tb, rb),
                             ShapedUnit("bS", tc, rc)>>)} :
              /\ units_ = m.units
              /\ file_units_ = m.file_units
    /\ cache_ = EmptyMap
    /\ snapshots_ = EmptyMap
    /\ units_to_compile_ = <<>>
    /\ changes = <<>>
    /\ last = NoCall
    /\ cycle = Idle
    /\ done = {}
    /\ nops = 0

\* expand_to_boundaries(file_path, unit_ids)
Expand(file_path, unit_ids) ==
    /\ \E r \in {expand_to_boundaries(units_, file_units_, file_path, unit_ids)} :
          /\ units_' = r.units
          /\ last' = [NoCall EXCEPT !.op = "expand_to_boundaries", !.file = file_path,
                                    !.ids = unit_ids, !.result = r.ids]
    /\ nops' = nops + 1
    /\ UNCHANGED <<file_units_, cache_, snapshots_, units_to_compile_, changes, cycle, done>>

ExpandNext ==
    /\ nops < MaxExpandOps
    /\ \E f \in Files : \E ids \in (SUBSET ExpandIds) \ {{}} : Expand(f, ids)
    /\ UNCHANGED <<diffVars, cacheVars>>

InitExpand == ExpandInit /\ DiffIdle /\ CacheIdle

SpecExpand == InitExpand /\ [][ExpandNext]_vars

\* the ids the last expansion added to the set it was given
Expanded == IF last.op = "expand_to_boundaries" THEN last.result \ last.ids ELSE {}

\* unit p spans every line of unit id
Encloses(p, id) ==
    units_[p].start_line <= units_[id].start_line /\ units_[p].end_line >= units_[id].end_line

SameRange(p, id) ==
    units_[p].start_line = units_[id].start_line /\ units_[p].end_line = units_[id].end_line

\* C34: expansion adds a unit only if it is a Function or Class whose line
\* range is a proper superset of the range of a non-structural unit of the
\* set it was given: a container with exactly the unit's range is not added,
\* and nothing is added on account of a Function or Class of the set
C34_ProperContainersOnly ==
    \A p \in Expanded :
        /\ units_[p].type \in Structural
        /\ \E id \in last.ids :
              /\ units_[id].type \notin Structural
              /\ Encloses(p, id)
              /\ ~SameRange(p, id)

\* C35: expansion stays in the affected unit's own file: a container is added
\* only if it is a Function or Class of the same file as a non-structural unit
\* of the set whose lines it encloses
C35_SameFileContainers ==
    \A p \in Expanded :
        \E id \in last.ids :
            /\ units_[id].type \notin Structural
            /\ units_[id].file_path = units_[p].file_path
            /\ Encloses(p, id)

-----------------------------------------------------------------------------
(* get_changed_lines against the pairs of compute_lcs, under SpecDiff *)

\* the new sequence is the old one with lines taken out
OnlyDeleted == \E I \in SUBSET DOMAIN old_lines : PickAt(old_lines, I) = new_lines

\* C36: get_changed_lines returns, strictly ascending, exactly the 1-based
\* new-side line numbers whose 0-based index is the new_idx of no pair of
\* compute_lcs, so it is as long as the new sequence less the pairs; it is
\* empty when the new sequence is the old one with lines deleted.
C36_ChangedIsComplementOfLcs ==
    dpc = "out" =>
        /\ \A k \in DOMAIN changed : \A l \in DOMAIN changed :
              k < l => changed[k] < changed[l]
        /\ Range(changed) =
              {j \in 1..Len(new_lines) : \A k \in DOMAIN lcs : lcs[k][2] # j - 1}
        /\ Len(changed) = Len(new_lines) - Len(lcs)
        /\ OnlyDeleted => changed = <<>>

\* a full-length new sequence whose first and third lines are unmatched while
\* the second and the last are paired with old lines at other positions
C36_Witness ==
    /\ dpc = "out"
    /\ Len(new_lines) = MaxDiffLen
    /\ changed = <<1, 3>>
    /\ Len(lcs) = 2
    /\ lcs[1][1] # lcs[1][2]

-----------------------------------------------------------------------------
(* update_source on source text with whitespace: a file with registered     *)
(* units is given contents of up to MaxTextLen characters                   *)

MaxTextLen == 3
MaxTextOps == 2
TextChars == {"x", " ", "\t", "\r", "\n"}
Texts == SeqsUpTo(TextChars, MaxTextLen)

\* the engine once register_units("A", units) has been called
TextInit ==
    /\ \E U \in Layouts("A") :
          \E m \in {register_units([units |-> EmptyMap, file_units |-> [f \in Files |-> <<>>]],
                                   "A", [i \in 1..Cardinality(U) |-> NewUnit(LayoutSeq(U)[i])])} :
              /\ units_ = m.units
              /\ file_units_ = m.file_units
    /\ cache_ = EmptyMap
    /\ snapshots_ = EmptyMap
    /\ units_to_compile_ = <<>>
    /\ changes = <<>>
    /\ last = NoCall
    /\ cycle = Idle
    /\ done = {}
    /\ nops = 0

TextNext ==
    /\ nops < MaxTextOps
    /\ \E text \in Texts : UpdateSource("A", text)
    /\ UNCHANGED <<diffVars, cacheVars>>

InitText == TextInit /\ DiffIdle /\ CacheIdle

SpecText == InitText /\ [][TextNext]_vars

\* the pieces of a text between its newlines, the piece after the last
\* newline (empty or not) included
RECURSIVE Pieces(_)
Pieces(s) ==
    IF \A i \in DOMAIN s : s[i] # "\n" THEN <<s>>
    ELSE LET k == CHOOSE i \in DOMAIN s : s[i] = "\n" /\ \A j \in 1..(i - 1) : s[j] # "\n"
         IN  <<SubSeq(s, 1, k - 1)>> \o Pieces(SubSeq(s, k + 1, Len(s)))

\* the lines of a text: its pieces, the last one only if it is not empty
TextLines(s) ==
    LET ps == Pieces(s)
    IN  IF ps[Len(ps)] = <<>> THEN SubSeq(ps, 1, Len(ps) - 1) ELSE ps

Blank == {" ", "\t", "\r"}

\* what is left of a line without its leading and trailing blanks
Core(l) ==
    LET inked == {i \in DOMAIN l : l[i] \notin Blank}
    IN  IF inked = {} THEN <<>>
        ELSE SubSeq(l, CHOOSE i \in inked : \A j \in inked : i <= j,
                       CHOOSE i \in inked : \A j \in inked : i >= j)

\* line for line the two texts differ in leading or trailing blanks only
\* (an all-blank line against another all-blank line included)
BlanksOnly(old, new) ==
    /\ Len(TextLines(old)) = Len(TextLines(new))
    /\ \A i \in DOMAIN TextLines(old) : Core(TextLines(old)[i]) = Core(TextLines(new)[i])

\* one text is the other with a newline appended at its end
TrailingNewlineOnly(old, new) == new = old \o <<"\n">> \/ old = new \o <<"\n">>

\* the same, the shorter text ending in an unterminated line
FinalNewlineOnly(old, new) ==
    \E s \in {old, new} :
        /\ s # <<>>
        /\ s[Len(s)] # "\n"
        /\ {old, new} = {s, s \o <<"\n">>}

\* a step from one update_source of the file to the next
UpdatedAgain ==
    /\ last.op = "update_source"
    /\ last'.op = "update_source"
    /\ last'.file = last.file

\* C37: when the new content differs from the old one only in leading or
\* trailing whitespace of lines, in one all-whitespace line replaced by
\* another, or by a newline that terminates the last line of one of them
\* (that content being neither empty nor newline-terminated already),
\* get_changed_lines returns the empty list and update_source leaves
\* units_to_compile empty
C37_WhitespaceInsensitive ==
    [][(UpdatedAgain /\ (BlanksOnly(last.text, last'.text)
                            \/ FinalNewlineOnly(last.text, last'.text)))
          => (last'.lines = <<>> /\ units_to_compile_' = <<>>)]_vars

\* C37 as stated: any newline appended at the end of the content counts as a
\* difference "only by a trailing newline"
C37_AnyTrailingNewline ==
    [][(UpdatedAgain /\ (BlanksOnly(last.text, last'.text)
                            \/ TrailingNewlineOnly(last.text, last'.text)))
          => (last'.lines = <<>> /\ units_to_compile_' = <<>>)]_vars

\* a second update_source of a file holding the class aC whose content,
\* " x\n", is not the previous one and yields no changed line: the previous
\* content was the same line spelt with other blanks or without its
\* newline, and the units queued by the first update are gone
C37_Witness ==
    /\ last.op = "update_source"
    /\ ~last.first
    /\ ~last.repeat
    /\ last.text = <<" ", "x", "\n">>
    /\ last.lines = <<>>
    /\ units_to_compile_ = <<>>
    /\ "aC" \in DOMAIN units_

-----------------------------------------------------------------------------
(* LFUCache: min_frequency_ against the stored frequencies *)

\* C38: whenever the LFUCache stores a key, min_frequency_ is the smallest
\* frequency of any stored key: the list at min_frequency_ is not empty and
\* no key is stored at a lower frequency
C38_MinFrequency ==
    (DOMAIN lfu.cache_ # {} /\ ~lfu.crashed) =>
        /\ FreqList(lfu, lfu.min_frequency_) # <<>>
        /\ \A k \in DOMAIN lfu.cache_ : lfu.cache_[k].frequency >= lfu.min_frequency_
        /\ \E k \in DOMAIN lfu.cache_ : lfu.cache_[k].frequency = lfu.min_frequency_

-----------------------------------------------------------------------------
(* UnitManager: the file index against the stored units, under SpecUnits *)

\* how many times id is listed in the index of file f
Listed(f, id) == Cardinality({i \in DOMAIN file_units_[f] : file_units_[f][i] = id})

\* C39: each stored unit's id is listed exactly once in the file index, under
\* the unit's file_path and under no other file, so get_units_by_file(f)
\* returns each unit of f exactly once and no unit of another file
C39_FileIndex ==
    /\ \A id \in DOMAIN units_ : \A f \in Files :
          Listed(f, id) = IF f = units_[id].file_path THEN 1 ELSE 0
    /\ \A f \in Files :
          LET got == get_units_by_file(Manager, f)
          IN  /\ Range(got) = {id \in DOMAIN units_ : units_[id].file_path = f}
              /\ Len(got) = Cardinality(Range(got))

-----------------------------------------------------------------------------
(* The locks of one BuildCache (smart_cache, smart_cache_simple and          *)
(* smart_cache_minimal) under calls from several threads.  Here mutex_ is    *)
(* the pair of BuildCache::mutex_ and the mutex_ of the policy object, and   *)
(* a thread is at: idle, outer (about to lock the BuildCache), inner (about  *)
(* to lock the policy), body, unlock (about to leave the policy function),   *)
(* leave (about to leave the BuildCache function).                           *)

MaxLockCalls == 3
Variants == {"full", "simple", "minimal"}

RequestT == Request(<<Ch("t")>>, <<Ch("cc")>>, <<>>)
RequestU == Request(<<Ch("u")>>, <<Ch("cc")>>, <<>>)

\* the public functions of each variant, with the arguments threads pass
NoRequest == Request(<<>>, <<>>, <<>>)

\* a call: the function, its target, command and dependencies if it takes
\* them, its strategy if it takes one; the result cached is always "R1"
LockCall(op, request, strategy) == [op |-> op, request |-> request, strategy |-> strategy]

LockCalls(kind) ==
    IF kind = "minimal"
    THEN {LockCall(op, q, "-") : op \in {"cache_result", "get_result", "needs_rebuild"},
                                q \in {RequestT, RequestU}}
    ELSE {LockCall(op, q, "-") :
              op \in {"cache_build_result", "get_cached_build_result", "needs_rebuild"},
              q \in {RequestT, RequestU}}
         \cup {LockCall("clean_all_cache", NoRequest, "-"),
               LockCall("dump_build_cache_stats", NoRequest, "-")}
         \cup (IF kind = "full"
               THEN {LockCall("set_cache_strategy", NoRequest, s) : s \in {"lru", "lfu"}}
               ELSE {})

\* the policy functions a call enters, one after the other, while it holds
\* BuildCache::mutex_: set_cache_strategy calls size() and then destroys the
\* old policy, whose destructor calls clear(); every other function calls one
PolicySections(call) == IF call.op = "set_cache_strategy" THEN 2 ELSE 1

\* the minimal BuildCache: a map from target + "|" + command to the result
MinimalKey(q) == q.target \o <<Ch("|")>> \o q.command

MinimalApply(c, call) ==
    CASE call.op = "cache_result" ->
            {[c |-> Put(c, MinimalKey(call.request), "R1"), ret |-> TRUE]}
      [] call.op = "get_result" ->
            {[c |-> c, ret |-> IF MinimalKey(call.request) \in DOMAIN c
                               THEN c[MinimalKey(call.request)] ELSE ""]}
      [] call.op = "needs_rebuild" ->
            {[c |-> c, ret |-> MinimalKey(call.request) \notin DOMAIN c]}

\* cache_key = calculate_string_hash(key_stream.str()): a text that differs
\* for the two requests
KeyText(q) == IF q = RequestT THEN "kt" ELSE "ku"

\* the full and the simple BuildCache: the policy function the call runs
FullApply(b, call) ==
    CASE call.op = "cache_build_result" ->
            {[c |-> [b EXCEPT !.cache_ = r.c], ret |-> r.ret] :
                r \in PolicyPut(b, KeyText(call.request), "R1")}
      [] call.op \in {"get_cached_build_result", "needs_rebuild"} ->
            {[c |-> [b EXCEPT !.cache_ = r.c], ret |-> r.ret] :
                r \in {PolicyGet(b, KeyText(call.request))}}
      [] call.op = "set_cache_strategy" -> Done(set_cache_strategy(b, call.strategy))
      [] call.op = "clean_all_cache" -> Done(clean_all_cache(b))
      [] call.op = "dump_build_cache_stats" -> Done(b)

\* what a call does to the object under both mutexes
LockApply(kind, c, call) ==
    IF kind = "minimal" THEN MinimalApply(c, call) ELSE FullApply(c, call)

\* the process has died inside a call
LockCrashed == shared.kind # "minimal" /\ shared.c.cache_.crashed

LockThread == [pc |-> "idle", call |-> LockCall("-", NoRequest, "-"), left |-> 0]

InitLocks ==
    /\ EngineInit
    /\ DiffIdle
    /\ lru = <<>>
    /\ lru_abs = <<>>
    /\ LfuIdle
    /\ build = <<>>
    /\ build_abs = <<>>
    /\ cc = <<>>
    /\ cc_abs = <<>>
    /\ shared \in {[kind |-> k, c |-> NewBuildCache(n, [f \in DepNames |-> NoFile])] :
                      k \in {"full", "simple"}, n \in 0..MaxCapacity}
                  \cup {[kind |-> "minimal", c |-> EmptyMap]}
    /\ mutex_ = [build |-> "free", policy |-> "free"]
    /\ threads = [t \in ThreadIds |-> LockThread]
    /\ serial = <<>>

\* a thread calls a public function
LockInvoke(t, call) ==
    /\ threads[t].pc = "idle"
    /\ nops < MaxLockCalls
    /\ threads' = [threads EXCEPT ![t] = [LockThread EXCEPT !.pc = "outer", !.call = call]]
    /\ nops' = nops + 1
    /\ UNCHANGED <<shared, mutex_, serial, last>>
    /\ ThreadFrame

\* std::lock_guard<std::mutex> lock(mutex_) of the BuildCache function
\* (needs_rebuild of the full and simple variants takes it inside
\* get_cached_build_result, holding nothing before)
LockBuild(t) ==
    /\ threads[t].pc = "outer"
    /\ \E g \in {lock_guard(mutex_.build, t)} :
           /\ g.entered
           /\ mutex_' = [mutex_ EXCEPT !.build = g.mutex]
    /\ threads' = [threads EXCEPT ![t].pc = "inner",
                                  ![t].left = PolicySections(threads[t].call)]
    /\ UNCHANGED <<shared, serial, last, nops>>
    /\ ThreadFrame

\* std::lock_guard<std::mutex> lock(mutex_) of the policy function
LockPolicy(t) ==
    /\ threads[t].pc = "inner"
    /\ \E g \in {lock_guard(mutex_.policy, t)} :
           /\ g.entered
           /\ mutex_' = [mutex_ EXCEPT !.policy = g.mutex]
    /\ threads' = [threads EXCEPT ![t].pc = "body"]
    /\ UNCHANGED <<shared, serial, last, nops>>
    /\ ThreadFrame

\* the body of the policy function; the last one of the call leaves the
\* object as the call leaves it
PolicyBody(t) ==
    /\ threads[t].pc = "body"
    /\ IF threads[t].left > 1
       THEN /\ threads' = [threads EXCEPT ![t].pc = "unlock"]
            /\ UNCHANGED shared
       ELSE \E r \in LockApply(shared.kind, shared.c, threads[t].call) :
               /\ shared' = [shared EXCEPT !.c = r.c]
               /\ threads' = [threads EXCEPT ![t].pc = "unlock"]
    /\ UNCHANGED <<mutex_, serial, last, nops>>
    /\ ThreadFrame

\* the policy function returns: its guard releases the policy mutex
UnlockPolicy(t) ==
    /\ threads[t].pc = "unlock"
    /\ mutex_' = [mutex_ EXCEPT !.policy = "free"]
    /\ threads' = [threads EXCEPT ![t].left = @ - 1,
                                  ![t].pc = IF threads[t].left > 1 THEN "inner" ELSE "leave"]
    /\ UNCHANGED <<shared, serial, last, nops>>
    /\ ThreadFrame

\* the BuildCache function returns: its guard releases BuildCache::mutex_
UnlockBuild(t) ==
    /\ threads[t].pc = "leave"
    /\ mutex_' = [mutex_ EXCEPT !.build = "free"]
    /\ threads' = [threads EXCEPT ![t] = LockThread]
    /\ last' = [NoCall EXCEPT !.op = threads[t].call.op, !.id = t]
    /\ UNCHANGED <<shared, serial, nops>>
    /\ ThreadFrame

\* the steps of a thread inside a call
Proceed(t) ==
    /\ ~LockCrashed
    /\ (LockBuild(t) \/ LockPolicy(t) \/ PolicyBody(t) \/ UnlockPolicy(t) \/ UnlockBuild(t))

LocksNext ==
    \/ ~LockCrashed /\ \E t \in ThreadIds, call \in LockCalls(shared.kind) : LockInvoke(t, call)
    \/ ~LockCrashed /\ \E t \in ThreadIds : LockBuild(t)
    \/ ~LockCrashed /\ \E t \in ThreadIds : LockPolicy(t)
    \/ ~LockCrashed /\ \E t \in ThreadIds : PolicyBody(t)
    \/ ~LockCrashed /\ \E t \in ThreadIds : UnlockPolicy(t)
    \/ ~LockCrashed /\ \E t \in ThreadIds : UnlockBuild(t)

SpecLocks == InitLocks /\ [][LocksNext]_vars

\* the scheduler runs every thread that can take a step; a thread waiting
\* for a mutex takes it once it stays free
SpecLocksFair == SpecLocks /\ \A t \in ThreadIds : WF_vars(Proceed(t))

\* the policy mutex is only ever held inside the BuildCache mutex
LockOrder == \A t \in ThreadIds : mutex_.policy = t => mutex_.build = t

\* no thread reaches a guard of a mutex it holds
NoRelock ==
    \A t \in ThreadIds :
        /\ threads[t].pc = "outer" => mutex_.build # t
        /\ threads[t].pc = "inner" => mutex_.policy # t

\* C40: under any interleaving of calls on one BuildCache of any variant the
\* policy mutex is taken only by the holder of the BuildCache mutex, no
\* thread reaches the guard of a mutex it already holds, and every call
\* that was made returns
C40_DeadlockFreedom ==
    /\ [](LockOrder /\ NoRelock)
    /\ \A t \in ThreadIds : (threads[t].pc # "idle") ~> (threads[t].pc = "idle")

====
